---- MODULE Spec2Model ----
(***************************************************************************)
(* Usage-plan governance: the DynamoDB governance table (desired state),   *)
(* the API Gateway usage plans (live state) and the Lambda handlers that   *)
(* reconcile them: usage_plan_manager, lifecycle_manager,                  *)
(* configuration_enforcement, config_compliance, usage_plan_recovery and   *)
(* version_logger with its version log table.                              *)
(*                                                                         *)
(* A DynamoDB item and an API Gateway response are Python dicts; a dict is *)
(* a function from the attribute names it holds to their values, so that   *)
(* "attribute absent" is "name not in DOMAIN".                             *)
(* A string that the code splits on '/' is the sequence of its segments.   *)
(***************************************************************************)
EXTENDS Integers, Sequences, FiniteSets, TLC

VARIABLES table, live, nextId, last, version_log

vars == <<table, live, nextId, last, version_log>>

----------------------------------------------------------------------------
(* Bounds of the model *)

\* number of usage plan ids API Gateway hands out in one behaviour
MaxPlans == 2

\* number of AWS calls that fail in one handler invocation
MaxFailures == 1

\* the longest annotation handed to truncate_annotation
MaxMessage == 300

\* the largest number of records of a stream batch
MaxBatch == 2

\* the latest reading of the clock, in ticks
MaxClock == 3

----------------------------------------------------------------------------
(* Python dict helpers *)

Has(d, k) == k \in DOMAIN d

\* d.get(k, default)
Get(d, k, default) == IF k \in DOMAIN d THEN d[k] ELSE default

\* d[k] = v
Put(d, k, v) == (k :> v) @@ d

\* the value Python's None has in this model
None == "None"

EmptyDict == [k \in {} |-> None]

----------------------------------------------------------------------------
(* Universes of the inputs *)

\* ids API Gateway generates, in the order it hands them out
AllIds == <<"p1", "p2", "p3", "p4", "p5", "p6">>

IdOf(n) == AllIds[n]

GeneratedIds == {IdOf(n) : n \in 1..(nextId - 1)}

AWS_REGION == "us-east-1"

\* (apiId, stage) pairs of the deployed test API
StagePairs == {[apiId |-> "api1", stage |-> "dev"], [apiId |-> "api1", stage |-> "Stage"]}

\* f"arn:aws:apigateway:{region}::/restapis/{api_id}/stages/{stage_name}", as
\* the sequence of its '/'-separated segments
StageArn(region, api_id, stage_name) ==
    <<"arn:aws:apigateway:" \o region \o "::", "restapis", api_id, "stages", stage_name>>

ArnDev == StageArn(AWS_REGION, "api1", "dev")
ArnStage == StageArn(AWS_REGION, "api1", "Stage")

\* the stage lists a caller stores in a governance record
StageLists == {<< >>, <<ArnDev>>, <<ArnDev, ArnStage>>}

\* SAMPLE_DATA tiers used as request bodies of POST /usage-plans
Tiers ==
    { [name |-> "Basic Tier", tier |-> "Basic", rate_limit |-> 50,
       burst_limit |-> 100, quota_limit |-> 10000, quota_period |-> "MONTH"],
      [name |-> "Legacy Tier", tier |-> "Legacy", rate_limit |-> 25,
       burst_limit |-> 50, quota_limit |-> 5000, quota_period |-> "MONTH"] }

(* Numbers.  A governance record holds whole numbers (boto3 stores a Python  *)
(* int as a DynamoDB Number and rejects a float).  API Gateway's rateLimit  *)
(* is a double: a float is modelled by the number of its halves, so that    *)
(* 25.5 is 51; burstLimit and the quota limit are integers.                 *)

\* float(n) for a whole number n
Float(n) == 2 * n

\* int(x) for a float x >= 0: truncation
IntOfFloat(x) == x \div 2

\* x == n for a float x and an int n
FloatEqInt(x, n) == x = 2 * n

\* int(d) for the Decimal of a governance record (a whole number)
IntOfDecimal(d) == d

\* str(n) for a whole number n, the 'value' of a patch operation: a decimal
\* string is modelled by the pair of its whole part and its tenths
StrOfInt(n) == <<n, 0>>

\* API Gateway reading the 'value' of a patch operation as a double (the
\* tenths of the values used here are 0 or 5), as an integer
ParseDouble(s) == 2 * s[1] + s[2] \div 5
ParseInt(s) == s[1]

\* values an out-of-band edit gives a live plan: "25", "25.5", "50"
RateValues == {StrOfInt(25), <<25, 5>>, StrOfInt(50)}
BurstValues == {StrOfInt(50), StrOfInt(100)}
QuotaValues == {StrOfInt(5000), StrOfInt(10000)}

\* an abstract datetime.utcnow().isoformat()
Now == "now"

\* the sets of AWS calls that fail in one invocation, among `calls`
FailureSets(calls) == {F \in SUBSET calls : Cardinality(F) <= MaxFailures}

Range(s) == {s[i] : i \in DOMAIN s}

----------------------------------------------------------------------------
(* config_compliance: the drift detector *)

\* the live plan's apiStages as stage ARNs (handler.py 356-361)
ApiStagesArns(api_plan) ==
    {StageArn(AWS_REGION, st.apiId, st.stage) : st \in Get(api_plan, "apiStages", {})}

RateViolation(db_plan, api_plan) ==
    LET api_throttle == Get(api_plan, "throttle", EmptyDict)
    IN  IF IntOfDecimal(Get(db_plan, "rate_limit", 0))
             # IntOfFloat(Get(api_throttle, "rateLimit", Float(0)))
        THEN <<[kind |-> "Rate limit"]>> ELSE << >>

BurstViolation(db_plan, api_plan) ==
    LET api_throttle == Get(api_plan, "throttle", EmptyDict)
    IN  IF IntOfDecimal(Get(db_plan, "burst_limit", 0)) # Get(api_throttle, "burstLimit", 0)
        THEN <<[kind |-> "Burst limit"]>> ELSE << >>

QuotaViolation(db_plan, api_plan) ==
    LET api_quota == Get(api_plan, "quota", EmptyDict)
    IN  IF IntOfDecimal(Get(db_plan, "quota_limit", 0)) # Get(api_quota, "limit", 0)
        THEN <<[kind |-> "Quota limit"]>> ELSE << >>

ApiStagesViolation(db_stages_set, api_stages_set) ==
    IF ~(api_stages_set \subseteq db_stages_set)
    THEN <<[kind |-> "Stages in API Gateway not in DB",
            count |-> Cardinality(api_stages_set \ db_stages_set)]>>
    ELSE << >>

DbStagesViolation(db_stages_set, api_stages_set) ==
    IF ~(db_stages_set \subseteq api_stages_set)
    THEN <<[kind |-> "Stages in DB not in API Gateway",
            count |-> Cardinality(db_stages_set \ api_stages_set)]>>
    ELSE << >>

\* validate_plan_configuration(db_plan, api_plan): the list of violations
\* validate_plan_configuration without the check of the stages the record
\* lists and the live plan lacks
validate_plan_configuration_api_stages_only(db_plan, api_plan) ==
    LET db_stages_set == Range(Get(db_plan, "stages", << >>))
        api_stages_set == ApiStagesArns(api_plan)
    IN  RateViolation(db_plan, api_plan)
        \o BurstViolation(db_plan, api_plan)
        \o QuotaViolation(db_plan, api_plan)
        \o ApiStagesViolation(db_stages_set, api_stages_set)

validate_plan_configuration(db_plan, api_plan) ==
    LET db_stages_set == Range(Get(db_plan, "stages", << >>))
        api_stages_set == ApiStagesArns(api_plan)
    IN  RateViolation(db_plan, api_plan)
        \o BurstViolation(db_plan, api_plan)
        \o QuotaViolation(db_plan, api_plan)
        \o ApiStagesViolation(db_stages_set, api_stages_set)
        \o DbStagesViolation(db_stages_set, api_stages_set)

\* the triple comparison of the configuration-similarity tier
\* (plans_match_by_config, and the scan of evaluate_resource_compliance)
plans_match_by_config(db_plan, api_plan) ==
    LET api_throttle == Get(api_plan, "throttle", EmptyDict)
        api_quota == Get(api_plan, "quota", EmptyDict)
    IN  /\ IntOfDecimal(Get(db_plan, "rate_limit", 0))
             = IntOfFloat(Get(api_throttle, "rateLimit", Float(0)))
        /\ IntOfDecimal(Get(db_plan, "burst_limit", 0)) = Get(api_throttle, "burstLimit", 0)
        /\ IntOfDecimal(Get(db_plan, "quota_limit", 0)) = Get(api_quota, "limit", 0)

----------------------------------------------------------------------------
(* The two stores *)

\* the order in which table.scan() and get_usage_plans() list their items
KeyOrder == AllIds \o <<"Basic Tier", "Legacy Tier">>

RECURSIVE ItemsInOrder(_, _)
ItemsInOrder(store, n) ==
    IF n = 0 THEN << >>
    ELSE ItemsInOrder(store, n - 1) \o
         (IF KeyOrder[n] \in DOMAIN store THEN <<store[KeyOrder[n]]>> ELSE << >>)

\* table.scan()['Items']
Scan(tbl) == ItemsInOrder(tbl, Len(KeyOrder))

\* apigateway.get_usage_plans()['items']
GetUsagePlans(lv) == ItemsInOrder(lv, Len(KeyOrder))

\* store with key k removed
Remove(store, k) == [x \in DOMAIN store \ {k} |-> store[x]]

\* update_item storing `attrs` as the whole item, as put_item would
UpdateItem_as_put(tbl, k, attrs) == Put(tbl, k, attrs @@ [plan_id |-> k])

\* table.update_item(Key={'plan_id': k}, UpdateExpression='SET ...'): sets the
\* attributes of `attrs`, creating the item when it does not exist
UpdateItem(tbl, k, attrs) ==
    IF k \in DOMAIN tbl THEN Put(tbl, k, attrs @@ tbl[k])
    ELSE Put(tbl, k, attrs @@ [plan_id |-> k])

\* apigateway.create_usage_plan(name, throttle, quota) as the plan stored
NewLivePlan(id, name, throttle, quota) ==
    [id |-> id, name |-> name, apiStages |-> {}] @@ throttle @@ quota

\* one patch operation applied to a live plan
ApplyOp(plan, op) ==
    CASE op.path = "/throttle/rateLimit" ->
           Put(plan, "throttle", Put(Get(plan, "throttle", EmptyDict), "rateLimit", ParseDouble(op.value)))
      [] op.path = "/throttle/burstLimit" ->
           Put(plan, "throttle", Put(Get(plan, "throttle", EmptyDict), "burstLimit", ParseInt(op.value)))
      [] op.path = "/quota/limit" ->
           Put(plan, "quota", Put(Get(plan, "quota", EmptyDict), "limit", ParseInt(op.value)))
      [] op.path = "/apiStages" ->
           Put(plan, "apiStages", Get(plan, "apiStages", {}) \cup {op.value})

RECURSIVE ApplyPatch(_, _)
\* apigateway.update_usage_plan(usagePlanId, patchOperations) on the plan
ApplyPatch(plan, ops) ==
    IF ops = << >> THEN plan ELSE ApplyPatch(ApplyOp(plan, Head(ops)), Tail(ops))

NoOp == [op |-> "none"]

Init ==
    /\ table = EmptyDict
    /\ live = EmptyDict
    /\ nextId = 1
    /\ last = NoOp
    /\ version_log = EmptyDict

----------------------------------------------------------------------------
(* Out-of-band changes to API Gateway (console, CLI) *)

\* somebody creates a usage plan that no governance record describes
ExternalCreate(t) ==
    /\ live' = Put(live, IdOf(nextId),
                   [id |-> IdOf(nextId), name |-> t.name, apiStages |-> {},
                    throttle |-> [rateLimit |-> Float(t.rate_limit), burstLimit |-> t.burst_limit],
                    quota |-> [limit |-> t.quota_limit, period |-> t.quota_period]])
    /\ nextId' = nextId + 1
    /\ last' = NoOp
    /\ UNCHANGED table

\* somebody edits the limits or the stages of a live plan
ExternalUpdate(id, op) ==
    /\ id \in DOMAIN live
    /\ live' = Put(live, id, ApplyOp(live[id], op))
    /\ live'[id] # live[id]
    /\ last' = NoOp
    /\ UNCHANGED <<table, nextId>>

\* somebody deletes a live plan (CloudTrail then reports DeleteUsagePlan)
ExternalDelete(id) ==
    /\ id \in DOMAIN live
    /\ live' = Remove(live, id)
    /\ last' = NoOp
    /\ UNCHANGED <<table, nextId>>

\* the patch operations an out-of-band edit may apply
ExternalOps ==
    {[path |-> "/throttle/rateLimit", value |-> v] : v \in RateValues}
    \cup {[path |-> "/throttle/burstLimit", value |-> v] : v \in BurstValues}
    \cup {[path |-> "/quota/limit", value |-> v] : v \in QuotaValues}
    \cup {[path |-> "/apiStages", value |-> st] : st \in StagePairs}

----------------------------------------------------------------------------
(* usage_plan_manager *)

\* request bodies of POST /usage-plans
CreateInputs == {t @@ [stages |-> sl] : t \in Tiers, sl \in StageLists}

\* the plan apigateway.create_usage_plan stores for plan_data (handler.py 40-51)
CreatedPlan(id, plan_data) ==
    NewLivePlan(id, plan_data.name,
        [throttle |-> [rateLimit |-> Float(plan_data.rate_limit),
                       burstLimit |-> plan_data.burst_limit]],
        [quota |-> [limit |-> plan_data.quota_limit, period |-> plan_data.quota_period]])

\* the item create_usage_plan puts in the table (handler.py 54-66)
CreatedItem(id, plan_data) ==
    [plan_id |-> id, name |-> plan_data.name, tier |-> plan_data.tier,
     rate_limit |-> plan_data.rate_limit, burst_limit |-> plan_data.burst_limit,
     quota_limit |-> plan_data.quota_limit, quota_period |-> plan_data.quota_period,
     lifecycle_state |-> "Active", stages |-> Get(plan_data, "stages", << >>),
     created_at |-> Now]

\* create_usage_plan(plan_data); F is the set of AWS calls that fail
create_usage_plan(plan_data, F) ==
    LET id == IdOf(nextId)
    IN  IF "create_usage_plan" \in F
        THEN /\ UNCHANGED <<table, live, nextId>>
             /\ last' = [op |-> "create_usage_plan", statusCode |-> "exception"]
        ELSE /\ live' = Put(live, id, CreatedPlan(id, plan_data))
             /\ nextId' = nextId + 1
             /\ IF "put_item" \in F
                THEN /\ UNCHANGED table
                     /\ last' = [op |-> "create_usage_plan", plan_id |-> id,
                                 statusCode |-> "exception"]
                ELSE /\ table' = Put(table, id, CreatedItem(id, plan_data))
                     /\ last' = [op |-> "create_usage_plan", plan_id |-> id,
                                 statusCode |-> 200]

\* request bodies of PUT /usage-plans/{planId}
UpdateInputs ==
    {[rate_limit |-> t.rate_limit, burst_limit |-> t.burst_limit,
      quota_limit |-> t.quota_limit] : t \in Tiers}
    \cup {[stages |-> sl] : sl \in StageLists}
    \cup {[rate_limit |-> t.rate_limit] : t \in Tiers}
    \cup {[rate_limit |-> t.rate_limit, stages |-> <<ArnDev>>] : t \in Tiers}

LimitKeys == {"rate_limit", "burst_limit", "quota_limit"}

\* stage_arn.split('/')[-2], stage_arn.split('/')[-1]
StageOfArnFromEnd_last_two(stage_arn) ==
    [apiId |-> stage_arn[Len(stage_arn) - 1], stage |-> stage_arn[Len(stage_arn)]]

\* stage_arn.split('/')[-3], stage_arn.split('/')[-1]
StageOfArnFromEnd(stage_arn) ==
    [apiId |-> stage_arn[Len(stage_arn) - 2], stage |-> stage_arn[Len(stage_arn)]]

\* the names of the per-stage update_usage_plan calls, by position in the list
StageCalls == <<"add_stage_1", "add_stage_2">>

\* the position of the first stage call of 1..n that fails, n + 1 when none does
FirstFailing(F, n) ==
    IF \E i \in 1..n : StageCalls[i] \in F
    THEN CHOOSE i \in 1..n : StageCalls[i] \in F /\ \A j \in 1..(i - 1) : StageCalls[j] \notin F
    ELSE n + 1

RECURSIVE AddStagesPatch(_)
\* the 'add /apiStages' operations of the stage loop (handler.py 120-132)
AddStagesPatch(stages) ==
    IF stages = << >> THEN << >>
    ELSE <<[op |-> "add", path |-> "/apiStages", value |-> StageOfArnFromEnd(Head(stages))]>>
         \o AddStagesPatch(Tail(stages))

\* the update_item of the stages running before the limits are looked at
StagesStored_first(has_stages, key_error, limits_fail, stages_fail) ==
    has_stages /\ ~stages_fail

\* whether the update_item of the stages (handler.py 92-103) is reached and
\* goes through: the statements before it raised nothing
StagesStored(has_stages, key_error, limits_fail, stages_fail) ==
    has_stages /\ ~key_error /\ ~limits_fail /\ ~stages_fail

\* update_usage_plan(plan_id, plan_data); F is the set of AWS calls that fail
update_usage_plan(plan_id, plan_data, F) ==
    LET has_limits == \E key \in LimitKeys : Has(plan_data, key)
        has_stages == Has(plan_data, "stages")
        key_error == has_limits /\ ~(LimitKeys \subseteq DOMAIN plan_data)
        \* ConditionExpression='attribute_exists(plan_id)'
        exists == plan_id \in DOMAIN table
        limits_fail == has_limits /\ (~exists \/ "update_item" \in F)
        table1 == IF has_limits /\ ~key_error /\ ~limits_fail
                  THEN UpdateItem(table, plan_id,
                           [rate_limit |-> plan_data.rate_limit,
                            burst_limit |-> plan_data.burst_limit,
                            quota_limit |-> plan_data.quota_limit, updated_at |-> Now])
                  ELSE table
        stages_fail == has_stages /\ (~exists \/ "update_item_stages" \in F)
        stored == ~key_error /\ ~limits_fail /\ ~stages_fail
        table2 == IF StagesStored(has_stages, key_error, limits_fail, stages_fail)
                  THEN UpdateItem(table1, plan_id,
                           [stages |-> plan_data.stages, updated_at |-> Now])
                  ELSE table1
        patch_ops == IF has_limits /\ ~key_error
                     THEN << [op |-> "replace", path |-> "/throttle/rateLimit",
                              value |-> StrOfInt(plan_data.rate_limit)],
                             [op |-> "replace", path |-> "/throttle/burstLimit",
                              value |-> StrOfInt(plan_data.burst_limit)],
                             [op |-> "replace", path |-> "/quota/limit",
                              value |-> StrOfInt(plan_data.quota_limit)] >>
                     ELSE << >>
        patch_fail == patch_ops # << >> /\ (plan_id \notin DOMAIN live \/ "update_usage_plan" \in F)
        patched == stored /\ ~patch_fail
        live1 == IF patched /\ patch_ops # << >>
                 THEN Put(live, plan_id, ApplyPatch(live[plan_id], patch_ops))
                 ELSE live
        stage_ops == IF has_stages THEN AddStagesPatch(plan_data.stages) ELSE << >>
        \* the stage loop stops at the first call that raises
        n_added == IF ~patched THEN 0
                   ELSE IF plan_id \notin DOMAIN live THEN 0
                   ELSE FirstFailing(F, Len(stage_ops)) - 1
        live2 == IF n_added > 0
                 THEN Put(live1, plan_id, ApplyPatch(live1[plan_id], SubSeq(stage_ops, 1, n_added)))
                 ELSE live1
    IN  /\ table' = table2
        /\ live' = live2
        /\ last' = [op |-> "update_usage_plan", plan_id |-> plan_id,
                    plan_data |-> plan_data,
                    statusCode |-> IF patched /\ n_added = Len(stage_ops)
                                   THEN 200 ELSE "exception",
                    status |-> IF patched /\ n_added = Len(stage_ops)
                               THEN "updated" ELSE "exception"]
        /\ UNCHANGED nextId

----------------------------------------------------------------------------
(* lifecycle_manager *)

\* deprecate_plan(plan_id); F is the set of AWS calls that fail
deprecate_plan(plan_id, F) ==
    /\ IF "update_item" \in F
       THEN /\ UNCHANGED table
            /\ last' = [op |-> "deprecate_plan", plan_id |-> plan_id,
                        statusCode |-> "exception", notifications |-> << >>]
       ELSE /\ table' = UpdateItem(table, plan_id,
                            [lifecycle_state |-> "Deprecated", deprecated_at |-> Now])
            /\ last' = [op |-> "deprecate_plan", plan_id |-> plan_id,
                        statusCode |-> IF "sns" \in F THEN "exception" ELSE 200,
                        notifications |-> IF "sns" \in F THEN << >>
                                          ELSE <<[event |-> "plan_deprecated",
                                                  plan_id |-> plan_id]>>]
    /\ UNCHANGED <<live, nextId>>

----------------------------------------------------------------------------
(* configuration_enforcement *)

\* the three drift checks of enforce_configuration_for_plan (handler.py 89-108)
RateCorrection(governance_record, current_config) ==
    LET current_rate == Get(Get(current_config, "throttle", EmptyDict), "rateLimit", Float(0))
        expected_rate == IntOfDecimal(governance_record.rate_limit)
    IN  IF ~FloatEqInt(current_rate, expected_rate)
        THEN <<[op |-> "replace", path |-> "/throttle/rateLimit", value |-> StrOfInt(expected_rate)]>>
        ELSE << >>

\* the burst limit patched whether or not it differs
BurstCorrection_always(governance_record, current_config) ==
    <<[op |-> "replace", path |-> "/throttle/burstLimit",
       value |-> StrOfInt(IntOfDecimal(governance_record.burst_limit))]>>

BurstCorrection(governance_record, current_config) ==
    LET current_burst == Get(Get(current_config, "throttle", EmptyDict), "burstLimit", 0)
        expected_burst == IntOfDecimal(governance_record.burst_limit)
    IN  IF current_burst # expected_burst
        THEN <<[op |-> "replace", path |-> "/throttle/burstLimit", value |-> StrOfInt(expected_burst)]>>
        ELSE << >>

QuotaCorrection(governance_record, current_config) ==
    LET current_quota == Get(Get(current_config, "quota", EmptyDict), "limit", 0)
        expected_quota == IntOfDecimal(governance_record.quota_limit)
    IN  IF current_quota # expected_quota
        THEN <<[op |-> "replace", path |-> "/quota/limit", value |-> StrOfInt(expected_quota)]>>
        ELSE << >>

\* a full overwrite: a replace operation for each of the three limits
corrections_needed_overwrite(governance_record, current_config) ==
    <<[op |-> "replace", path |-> "/throttle/rateLimit",
       value |-> StrOfInt(IntOfDecimal(governance_record.rate_limit))],
      [op |-> "replace", path |-> "/throttle/burstLimit",
       value |-> StrOfInt(IntOfDecimal(governance_record.burst_limit))],
      [op |-> "replace", path |-> "/quota/limit",
       value |-> StrOfInt(IntOfDecimal(governance_record.quota_limit))]>>

corrections_needed(governance_record, current_config) ==
    RateCorrection(governance_record, current_config)
    \o BurstCorrection(governance_record, current_config)
    \o QuotaCorrection(governance_record, current_config)

\* whether the i-th sns.publish of the invocation, whose message reads
\* governance_record['name'], goes through
Published(governance_record, F, call) == Has(governance_record, "name") /\ call \notin F

\* the branch of enforce_configuration_for_plan for a plan without a
\* governance record (handler.py 58-73): the live plan it leaves
EnforceUnmanaged(plan_id, F) ==
    IF plan_id \in DOMAIN live /\ "get_usage_plan" \notin F /\ "delete_usage_plan" \notin F
    THEN Remove(live, plan_id)
    ELSE live

\* the application of the corrections reporting a failed patch without the
\* correction-failed notification
EnforceApply_silent(plan_id, governance_record, current_config, corrections, F) ==
    IF "update_usage_plan" \in F
    THEN [live |-> live, statusCode |-> 500, action |-> "Failed to apply corrections",
          applied |-> FALSE, notifications |-> << >>]
    ELSE [live |-> Put(live, plan_id, ApplyPatch(current_config, corrections)),
          statusCode |-> 200, action |-> "configuration_corrected", applied |-> TRUE,
          notifications |-> <<[event |-> "configuration_drift_corrected", plan_id |-> plan_id]>>]

\* the application of the corrections (handler.py 110-134): the result fields
EnforceApply(plan_id, governance_record, current_config, corrections, F) ==
    IF "update_usage_plan" \in F
    THEN IF Published(governance_record, F, "sns_1")
         THEN [live |-> live, statusCode |-> 500, action |-> "Failed to apply corrections",
               applied |-> FALSE,
               notifications |-> <<[event |-> "configuration_correction_failed", plan_id |-> plan_id]>>]
         ELSE [live |-> live, statusCode |-> "exception", action |-> "exception",
               applied |-> FALSE, notifications |-> << >>]
    ELSE LET patched == Put(live, plan_id, ApplyPatch(current_config, corrections))
         IN  IF Published(governance_record, F, "sns_1")
             THEN [live |-> patched, statusCode |-> 200, action |-> "configuration_corrected",
                   applied |-> TRUE,
                   notifications |-> <<[event |-> "configuration_drift_corrected", plan_id |-> plan_id]>>]
             ELSE IF Published(governance_record, F, "sns_2")
             THEN [live |-> patched, statusCode |-> 500, action |-> "Failed to apply corrections",
                   applied |-> TRUE,
                   notifications |-> <<[event |-> "configuration_correction_failed", plan_id |-> plan_id]>>]
             ELSE [live |-> patched, statusCode |-> "exception", action |-> "exception",
                   applied |-> TRUE, notifications |-> << >>]

\* enforce_configuration_for_plan(plan_id): the live store it leaves and what it
\* read, did and returned; F is the set of AWS calls that fail
EnforceOutcome(plan_id, F) ==
    LET base == [op |-> "enforce_configuration_for_plan", plan_id |-> plan_id,
                 live |-> live, deleted_live |-> FALSE, applied |-> FALSE,
                 corrections_needed |-> << >>, notifications |-> << >>]
    IN  IF "get_item" \in F
        THEN [statusCode |-> 500, action |-> "Error reading governance record"] @@ base
        ELSE IF plan_id \notin DOMAIN table
        THEN [statusCode |-> 404, action |-> "No governance record",
              live |-> EnforceUnmanaged(plan_id, F),
              deleted_live |-> EnforceUnmanaged(plan_id, F) # live] @@
             (IF plan_id \in DOMAIN live /\ "get_usage_plan" \notin F
              THEN [current_config |-> live[plan_id]] ELSE EmptyDict) @@ base
        ELSE LET governance_record == table[plan_id]
             IN  IF plan_id \notin DOMAIN live \/ "get_usage_plan" \in F
                 THEN [statusCode |-> 500, action |-> "Error reading API Gateway config",
                       governance_record |-> governance_record] @@ base
                 ELSE LET current_config == live[plan_id]
                          read == [governance_record |-> governance_record,
                                   current_config |-> current_config]
                      IN  IF ~(LimitKeys \subseteq DOMAIN governance_record)
                          THEN [statusCode |-> "exception", action |-> "exception"] @@ read @@ base
                          ELSE LET corrections == corrections_needed(governance_record, current_config)
                               IN  IF corrections = << >>
                                   THEN [statusCode |-> 200, action |-> "no_drift_detected"]
                                        @@ read @@ base
                                   ELSE EnforceApply(plan_id, governance_record, current_config,
                                                     corrections, F)
                                        @@ [corrections_needed |-> corrections] @@ read @@ base

EnforceCalls == {"get_item", "get_usage_plan", "delete_usage_plan", "update_usage_plan",
                 "sns_1", "sns_2"}

\* the stored part of an outcome: everything but the live store it leaves
Report(outcome) == [k \in DOMAIN outcome \ {"live"} |-> outcome[k]]

\* lambda_handler({'plan_id': plan_id}): direct invocation
enforce_configuration_for_plan(plan_id, F) ==
    LET outcome == EnforceOutcome(plan_id, F)
    IN  /\ live' = outcome.live
        /\ last' = Report(outcome)
        /\ UNCHANGED <<table, nextId>>

\* check_if_unmanaged_plan(plan_id): the notifications it sends (every error
\* is caught and printed)
check_if_unmanaged_plan(plan_id, F) ==
    IF /\ "check_get_item" \notin F
       /\ plan_id \notin DOMAIN table
       /\ plan_id \in DOMAIN live
       /\ "check_get_usage_plan" \notin F
       /\ "check_sns" \notin F
    THEN <<[event |-> "unmanaged_usage_plans_detected", plan_id |-> plan_id]>>
    ELSE << >>

\* handle_usage_plan_deletion(plan_id): the result fields
DeletionOutcome(plan_id, F) ==
    LET base == [op |-> "handle_usage_plan_deletion", plan_id |-> plan_id,
                 live |-> live, deleted_live |-> FALSE, applied |-> FALSE,
                 corrections_needed |-> << >>, notifications |-> << >>]
    IN  IF "get_item" \in F
        THEN [statusCode |-> 500, action |-> "Error handling deletion"] @@ base
        ELSE IF plan_id \in DOMAIN table
        THEN IF Published(table[plan_id], F, "sns_1")
             THEN [statusCode |-> 200, action |-> "managed_plan_deleted",
                   governance_record |-> table[plan_id],
                   notifications |-> <<[event |-> "managed_usage_plan_deleted",
                                        plan_id |-> plan_id]>>] @@ base
             ELSE [statusCode |-> 500, action |-> "Error handling deletion",
                   governance_record |-> table[plan_id]] @@ base
        ELSE [statusCode |-> 200, action |-> "unmanaged_plan_deleted"] @@ base

ChangeEvents == {"UpdateUsagePlan", "CreateUsagePlan", "DeleteUsagePlan"}

ChangeCalls == EnforceCalls \cup {"check_get_item", "check_get_usage_plan", "check_sns"}

\* handle_usage_plan_change(event): the result fields for each event name
ChangeOutcome(event_name, plan_id, F) ==
    IF event_name = "DeleteUsagePlan" THEN DeletionOutcome(plan_id, F)
    ELSE IF event_name = "CreateUsagePlan"
    THEN LET enforced == EnforceOutcome(plan_id, F)
         IN  [notifications |-> check_if_unmanaged_plan(plan_id, F)
                                \o enforced.notifications] @@ enforced
    ELSE EnforceOutcome(plan_id, F)

\* handle_usage_plan_change marking the record of a managed plan that was
\* deleted
handle_usage_plan_change_marking(event_name, plan_id, F) ==
    LET outcome == ChangeOutcome(event_name, plan_id, F)
    IN  /\ live' = outcome.live
        /\ last' = [event_name |-> event_name] @@ Report(outcome)
        /\ table' = IF outcome.action = "managed_plan_deleted"
                    THEN UpdateItem(table, plan_id, [deleted |-> TRUE])
                    ELSE table
        /\ UNCHANGED nextId

\* handle_usage_plan_change(event): a CloudTrail event of API Gateway
handle_usage_plan_change(event_name, plan_id, F) ==
    LET outcome == ChangeOutcome(event_name, plan_id, F)
    IN  /\ live' = outcome.live
        /\ last' = [event_name |-> event_name] @@ Report(outcome)
        /\ UNCHANGED <<table, nextId>>

----------------------------------------------------------------------------
(* config_compliance: evaluation of one resource *)

\* the scan of evaluate_resource_compliance (handler.py 271-278): the first
\* item whose three limits equal the live plan's, as a list of at most one item
\* the configuration scan keeping the last item that matches
FirstConfigMatch_last(items, api_plan) ==
    LET hits == {i \in DOMAIN items : plans_match_by_config(items[i], api_plan)}
    IN  IF hits = {} THEN << >>
        ELSE <<items[CHOOSE i \in hits : \A j \in hits : i >= j]>>

FirstConfigMatch_any(items, api_plan) ==
    IF items = << >> THEN << >> ELSE <<items[1]>>

FirstConfigMatch(items, api_plan) ==
    LET hits == {i \in DOMAIN items : plans_match_by_config(items[i], api_plan)}
    IN  IF hits = {} THEN << >>
        ELSE <<items[CHOOSE i \in hits : \A j \in hits : i <= j]>>

\* the evaluation of a plan whose governance record was found
\* (handler.py 307-315): NON_COMPLIANT with the violations, else COMPLIANT
Classification(db_plan, api_plan) ==
    LET violations == validate_plan_configuration(db_plan, api_plan)
    IN  [ComplianceType |-> IF violations # << >> THEN "NON_COMPLIANT" ELSE "COMPLIANT",
         Annotation |-> IF violations # << >> THEN "VIOLATIONS"
                        ELSE "Resource complies with DynamoDB metadata",
         violations |-> violations]

\* the UsagePlan branch of evaluate_resource_compliance (handler.py 258-319):
\* the live store it leaves and its evaluation; F is the set of calls that fail
EvaluateUsagePlanOutcome(usage_plan_id, F) ==
    LET base == [op |-> "evaluate_resource_compliance",
                 resource_type |-> "AWS::ApiGateway::UsagePlan",
                 plan_id |-> usage_plan_id, live |-> live, deleted_live |-> FALSE,
                 resolved_by |-> "none", violations |-> << >>]
        error == [ComplianceType |-> "NON_COMPLIANT",
                  Annotation |-> "Error getting API Gateway usage plan"]
    IN  IF usage_plan_id \notin DOMAIN live \/ "get_usage_plan" \in F
        THEN error @@ base
        ELSE
        LET api_plan == live[usage_plan_id]
            api_plan_name == api_plan.name
            read == [api_plan |-> api_plan] @@ base
        IN  IF "get_item" \in F THEN error @@ read
            ELSE IF api_plan_name \in DOMAIN table
            THEN LET db_plan == table[api_plan_name]
                 IN  Classification(db_plan, api_plan)
                     @@ [db_plan |-> db_plan, resolved_by |-> "name"] @@ read
            ELSE IF "scan" \in F THEN error @@ read
            ELSE
            LET found == FirstConfigMatch(Scan(table), api_plan)
            IN  IF found = << >>
                THEN IF "delete_usage_plan" \in F
                     THEN [ComplianceType |-> "NON_COMPLIANT",
                           Annotation |-> "Usage plan not found in DynamoDB (auto-delete failed)"]
                          @@ read
                     ELSE [ComplianceType |-> "NON_COMPLIANT",
                           Annotation |-> "REMEDIATED: Deleted orphaned plan",
                           live |-> Remove(live, usage_plan_id), deleted_live |-> TRUE] @@ read
                ELSE LET db_plan == found[1]
                     IN  Classification(db_plan, api_plan)
                         @@ [db_plan |-> db_plan, resolved_by |-> "config"] @@ read

EvaluateCalls == {"get_usage_plan", "get_item", "scan", "delete_usage_plan"}

\* lambda_handler of the Config rule for a configuration item of type
\* AWS::ApiGateway::UsagePlan with resourceId usage_plan_id
evaluate_resource_compliance(usage_plan_id, F) ==
    LET outcome == EvaluateUsagePlanOutcome(usage_plan_id, F)
    IN  /\ live' = outcome.live
        /\ last' = Report(outcome)
        /\ UNCHANGED <<table, nextId>>

\* find_api_gateway_usage_plan_id(db_plan_id) (handler.py 154-192), no call
\* failing: the id of the first live plan named db_plan_id, else of the first
\* live plan whose limits are those of the record db_plan_id, else None
find_api_gateway_usage_plan_id(db_plan_id) ==
    LET items == GetUsagePlans(live)
        named == {i \in DOMAIN items : items[i].name = db_plan_id}
        same == {i \in DOMAIN items :
                    /\ db_plan_id \in DOMAIN table
                    /\ plans_match_by_config(table[db_plan_id], items[i])}
    IN  IF named # {} THEN items[CHOOSE i \in named : \A j \in named : i <= j].id
        ELSE IF same # {} THEN items[CHOOSE i \in same : \A j \in same : i <= j].id
        ELSE None

----------------------------------------------------------------------------
(* config_compliance: the periodic evaluation of all governance records *)

\* {plan.get('name'): plan.get('id') for plan in items}.items(): one entry per
\* name, in the order in which the names first appear, holding the id of the
\* last plan of that name
RECURSIVE ApiPlansItems(_, _)
ApiPlansItems(items, n) ==
    IF n = 0 THEN << >>
    ELSE LET name == items[n].name
             last_id == items[CHOOSE i \in DOMAIN items :
                                /\ items[i].name = name
                                /\ \A j \in DOMAIN items : items[j].name = name => j <= i].id
         IN  IF \E i \in 1..(n - 1) : items[i].name = name
             THEN ApiPlansItems(items, n - 1)
             ELSE ApiPlansItems(items, n - 1) \o <<[name |-> name, id |-> last_id]>>

\* the candidate scan giving up at the first lookup that fails
RECURSIVE found_match_aborting(_, _, _)
found_match_aborting(db_plan, candidates, F) ==
    IF candidates = << >> THEN FALSE
    ELSE IF Head(candidates).id \in F THEN FALSE
    ELSE IF plans_match_by_config(db_plan, live[Head(candidates).id]) THEN TRUE
    ELSE found_match_aborting(db_plan, Tail(candidates), F)

\* the loop over api_plans.items() (handler.py 79-87): whether a candidate
\* matches db_plan by configuration; F holds the ids whose get_usage_plan fails
RECURSIVE found_match(_, _, _)
found_match(db_plan, candidates, F) ==
    IF candidates = << >> THEN FALSE
    ELSE IF Head(candidates).id \in F
    THEN found_match(db_plan, Tail(candidates), F)
    ELSE IF plans_match_by_config(db_plan, live[Head(candidates).id]) THEN TRUE
    ELSE found_match(db_plan, Tail(candidates), F)

\* the evaluations of the loop over db_plans (handler.py 70-98)
RECURSIVE MissingEvaluations(_, _, _)
MissingEvaluations(db_plans, candidates, F) ==
    IF db_plans = << >> THEN << >>
    ELSE LET db_plan == Head(db_plans)
             plan_id == Get(db_plan, "plan_id", None)
             rest == MissingEvaluations(Tail(db_plans), candidates, F)
         IN  IF Get(db_plan, "deleted", FALSE) THEN rest
             ELSE IF \E i \in DOMAIN candidates : candidates[i].name = plan_id THEN rest
             ELSE IF found_match(db_plan, candidates, F) THEN rest
             ELSE <<[ComplianceResourceType |-> "AWS::ApiGateway::UsagePlan",
                     ComplianceResourceId |-> <<"missing", plan_id>>,
                     ComplianceType |-> "NON_COMPLIANT"]>> \o rest

\* evaluate_deleted_usage_plans(): the evaluations it returns; a failing scan
\* or get_usage_plans is caught and gives no evaluation
evaluate_deleted_usage_plans(F) ==
    IF "scan" \in F \/ "get_usage_plans" \in F THEN << >>
    ELSE MissingEvaluations(Scan(table), ApiPlansItems(GetUsagePlans(live),
                                                      Len(GetUsagePlans(live))), F)

\* the calls of a periodic evaluation that may fail: the two listings, the
\* get_usage_plan of each live plan (named by the plan's id), put_evaluations
PeriodicCalls == {"scan", "get_usage_plans", "put_evaluations"} \cup DOMAIN live

\* lambda_handler for an invoking event without a configuration item
\* (handler.py 15-23)
periodic_evaluation(F) ==
    LET evaluations == evaluate_deleted_usage_plans(F)
        raised == evaluations # << >> /\ "put_evaluations" \in F
    IN  /\ last' = [op |-> "periodic_evaluation",
                    failed |-> F,
                    evaluations |-> evaluations,
                    submitted |-> IF raised THEN << >> ELSE evaluations,
                    action |-> IF raised THEN "exception"
                               ELSE "Periodic evaluation completed",
                    count |-> Len(evaluations)]
        /\ UNCHANGED <<table, live, nextId>>

----------------------------------------------------------------------------
(* config_compliance: annotations.  A string is the sequence of its characters *)

\* the default of truncate_annotation's max_length
MAX_LENGTH == 256

\* annotation[:max_length] without the ellipsis
truncate_annotation_cut(annotation, max_length) ==
    IF Len(annotation) <= max_length THEN annotation
    ELSE SubSeq(annotation, 1, max_length)

\* truncate_annotation(annotation, max_length) for max_length >= 3
truncate_annotation(annotation, max_length) ==
    IF Len(annotation) <= max_length THEN annotation
    ELSE SubSeq(annotation, 1, max_length - 3) \o <<".", ".", ".">>

\* the messages used as annotations: n characters, full stops at every third
\* position from offset c
Message(n, c) == [i \in 1..n |-> IF (i + c) % 3 = 0 THEN "." ELSE "x"]

\* create_evaluation_result(..., annotation, ...): the annotation it stores
create_evaluation_result(annotation) ==
    /\ last' = [op |-> "create_evaluation_result", annotation |-> annotation,
                Annotation |-> truncate_annotation(annotation, MAX_LENGTH)]
    /\ UNCHANGED <<table, live, nextId>>

----------------------------------------------------------------------------
(* usage_plan_recovery *)

RECURSIVE ParseStages(_)
\* the (apiId, stage) pairs recreate_usage_plan extracts from metadata['stages']
\* (handler.py 166-177): parts[2] and parts[4] of stage_arn.split('/'); an ARN
\* of fewer than 4 parts is skipped, and so is one of 4 (IndexError, caught)
ParseStages(stages) ==
    IF stages = << >> THEN << >>
    ELSE LET parts == Head(stages)
         IN  (IF Len(parts) >= 5 THEN <<[apiId |-> parts[3], stage |-> parts[5]]>> ELSE << >>)
             \o ParseStages(Tail(stages))

\* the number of update_usage_plan calls recreate_usage_plan makes for each
\* stage of api_stages (handler.py 181-200): the loop body calls it once, and
\* its except clause prints the error and goes on to the next stage
StageAttempts(api_stages) == [i \in DOMAIN api_stages |-> 1]

\* the stage loop giving up at the first association that fails
AssociatedStages_until_failure(api_stages, F) ==
    {api_stages[i] : i \in 1..(FirstFailing(F, Len(api_stages)) - 1)}

\* the stages of api_stages whose association call went through (handler.py 181-200)
AssociatedStages(api_stages, F) ==
    {api_stages[i] : i \in {j \in DOMAIN api_stages : StageCalls[j] \notin F}}

\* the live plan recreate_usage_plan creates and associates stages with
RecreatedPlan(new_plan_id, metadata, F) ==
    LET throttle == IF Has(metadata, "rate_limit") /\ Has(metadata, "burst_limit")
                    THEN [throttle |-> [rateLimit |-> Float(metadata.rate_limit),
                                        burstLimit |-> IntOfDecimal(metadata.burst_limit)]]
                    ELSE EmptyDict
        quota == IF Has(metadata, "quota_limit") /\ Has(metadata, "quota_period")
                 THEN [quota |-> [limit |-> IntOfDecimal(metadata.quota_limit),
                                  period |-> metadata.quota_period]]
                 ELSE EmptyDict
        created == NewLivePlan(new_plan_id, Get(metadata, "name", "Recreated-Plan"),
                               throttle, quota)
        api_stages == ParseStages(Get(metadata, "stages", << >>))
    IN  Put(created, "apiStages", AssociatedStages(api_stages, F))

\* the new record naming itself as the record it was recreated from
NewMetadata_self(old_plan_id, new_plan_id, metadata) ==
    [plan_id |-> new_plan_id, recreated_from |-> new_plan_id, recreated_at |-> Now] @@ metadata

\* the record update_dynamodb_record puts under the new id (handler.py 218-224)
NewMetadata(old_plan_id, new_plan_id, metadata) ==
    [plan_id |-> new_plan_id, recreated_from |-> old_plan_id, recreated_at |-> Now] @@ metadata

\* update_dynamodb_record without its update of the old record
update_dynamodb_record_new_only(old_plan_id, new_plan_id, metadata, F) ==
    IF "put_item" \in F THEN table
    ELSE Put(table, new_plan_id, NewMetadata(old_plan_id, new_plan_id, metadata))

\* update_dynamodb_record deleting the old record in place of marking it
update_dynamodb_record_delete_old(old_plan_id, new_plan_id, metadata, F) ==
    IF "put_item" \in F THEN table
    ELSE LET table1 == Put(table, new_plan_id, NewMetadata(old_plan_id, new_plan_id, metadata))
         IN  IF "update_item" \in F THEN table1 ELSE Remove(table1, old_plan_id)

\* update_dynamodb_record(old_plan_id, new_plan_id, metadata): the table it leaves
update_dynamodb_record(old_plan_id, new_plan_id, metadata, F) ==
    IF "put_item" \in F THEN table
    ELSE LET table1 == Put(table, new_plan_id, NewMetadata(old_plan_id, new_plan_id, metadata))
         IN  IF "update_item" \in F THEN table1
             ELSE UpdateItem(table1, old_plan_id,
                      [deleted |-> TRUE, recreated_as |-> new_plan_id, deleted_at |-> Now])

\* the value update_dynamodb_record returns: True when both writes went through
record_updated(F) == "put_item" \notin F /\ "update_item" \notin F

\* recreate_usage_plan(metadata): the id of the plan it created, None when
\* create_usage_plan raised (handler.py 154-157, 208-210)
recreate_usage_plan(metadata, F) ==
    IF "create_usage_plan" \in F THEN None ELSE IdOf(nextId)

\* lambda_handler calling update_dynamodb_record whatever recreate_usage_plan returned
RecoveryTable_unchecked(deleted_plan_id, new_plan_id, plan_metadata, F) ==
    update_dynamodb_record(deleted_plan_id, new_plan_id, plan_metadata, F)

\* the table lambda_handler leaves: update_dynamodb_record runs only for a
\* plan that was recreated (handler.py 62-64)
RecoveryTable(deleted_plan_id, new_plan_id, plan_metadata, F) ==
    IF new_plan_id # None
    THEN update_dynamodb_record(deleted_plan_id, new_plan_id, plan_metadata, F)
    ELSE table

\* the notifications of lambda_handler: send_deletion_notification before the
\* recreation and, for a recreated plan, after it; a failed publish is printed
RecoveryNotifications(deleted_plan_id, new_plan_id, F) ==
    (IF "sns_1" \in F THEN << >>
     ELSE <<[event |-> "USAGE_PLAN_DELETED", status |-> "PENDING_RECOVERY",
             plan_id |-> deleted_plan_id]>>)
    \o (IF new_plan_id = None \/ "sns_2" \in F THEN << >>
        ELSE <<[event |-> "USAGE_PLAN_DELETED", status |-> "RECOVERED",
                plan_id |-> deleted_plan_id, new_plan_id |-> new_plan_id]>>)

RecoveryCalls == {"get_item", "create_usage_plan", "add_stage_1", "add_stage_2",
                  "put_item", "update_item", "sns_1", "sns_2"}

\* lambda_handler(event) for the DeleteUsagePlan event of deleted_plan_id
usage_plan_recovery(deleted_plan_id, F) ==
    LET base == [op |-> "usage_plan_recovery", plan_id |-> deleted_plan_id,
                 failed |-> F, new_plan_id |-> None, notifications |-> << >>,
                 put_ok |-> FALSE, record_updated |-> FALSE]
    IN  \* CloudTrail reports DeleteUsagePlan for a plan that existed and is gone
        /\ deleted_plan_id \in GeneratedIds \ DOMAIN live
        /\ IF "get_item" \in F
           THEN /\ last' = [statusCode |-> "exception"] @@ base
                /\ UNCHANGED <<table, live, nextId>>
           ELSE IF deleted_plan_id \notin DOMAIN table
           THEN /\ last' = [statusCode |-> None] @@ base
                /\ UNCHANGED <<table, live, nextId>>
           ELSE LET plan_metadata == table[deleted_plan_id]
                    new_plan_id == recreate_usage_plan(plan_metadata, F)
                IN  /\ live' = IF new_plan_id # None
                               THEN Put(live, new_plan_id,
                                        RecreatedPlan(new_plan_id, plan_metadata, F))
                               ELSE live
                    /\ nextId' = IF new_plan_id # None THEN nextId + 1 ELSE nextId
                    /\ table' = RecoveryTable(deleted_plan_id, new_plan_id, plan_metadata, F)
                    /\ last' = [statusCode |-> IF new_plan_id # None THEN 200 ELSE 500,
                                metadata |-> plan_metadata,
                                new_plan_id |-> new_plan_id,
                                put_ok |-> new_plan_id # None /\ "put_item" \notin F,
                                record_updated |-> new_plan_id # None /\ record_updated(F),
                                notifications |->
                                    RecoveryNotifications(deleted_plan_id, new_plan_id, F)]
                               @@ base

\* whether this invocation of usage_plan_recovery reaches create_usage_plan
\* and the call goes through
Recreates(deleted_plan_id, F) ==
    /\ "get_item" \notin F
    /\ deleted_plan_id \in DOMAIN table
    /\ "create_usage_plan" \notin F

----------------------------------------------------------------------------
(* Stage references as strings.  Here a string is the sequence of its         *)
(* characters, with the fixed words of the ARN kept whole.                    *)

\* the characters of API ids and stage names (API Gateway allows letters,
\* digits, hyphens and underscores)
NameChars == {"a", "B", "1", "-", "_"}

\* the API ids and stage names used: the names of one or two characters
Names == {<<c>> : c \in NameChars} \cup {<<c, d>> : c \in NameChars, d \in NameChars}

\* f"arn:aws:apigateway:{region}::/restapis/{api_id}/stages/{stage_name}"
\* (config_compliance/handler.py 358)
StageArnString(region, api_id, stage_name) ==
    <<"arn:aws:apigateway:", region, "::", "/", "restapis", "/">> \o api_id
        \o <<"/", "stages", "/">> \o stage_name

\* string.split('/')
RECURSIVE Split(_)
Split(string) ==
    IF \A i \in DOMAIN string : string[i] # "/" THEN <<string>>
    ELSE LET i == CHOOSE i \in DOMAIN string :
                      string[i] = "/" /\ \A j \in 1..(i - 1) : string[j] # "/"
         IN  <<SubSeq(string, 1, i - 1)>> \o Split(SubSeq(string, i + 1, Len(string)))

\* the stage reference of (api_id, stage_name) built as a string and parsed by
\* recreate_usage_plan and by update_usage_plan
parse_stage_arn(api_id, stage_name) ==
    LET stage_arn == StageArnString(AWS_REGION, api_id, stage_name)
    IN  /\ last' = [op |-> "parse_stage_arn", api_id |-> api_id, stage_name |-> stage_name,
                    stage_arn |-> stage_arn,
                    by_position |-> ParseStages(<<Split(stage_arn)>>),
                    from_end |-> StageOfArnFromEnd(Split(stage_arn))]
        /\ UNCHANGED <<table, live, nextId>>

----------------------------------------------------------------------------
(* version_logger: the version log of the governance table's stream.  An   *)
(* image of the stream holds every attribute under its DynamoDB type tag;   *)
(* a number is the decimal string under "N".  An entry of the version log   *)
(* table is kept under its composite key <<plan_id, version_timestamp>>.    *)

\* Decimal(s) for the decimal string of a whole number
Decimal(s) == s[1]

TypeTags == {"S", "N", "BOOL", "L", "M", "NULL"}

RECURSIVE convert_dynamodb_to_json(_)
convert_dynamodb_to_json(dynamodb_item) ==
    LET Value(value) ==
            IF Has(value, "S") THEN value.S
            ELSE IF Has(value, "N") THEN Decimal(value.N)
            ELSE IF Has(value, "BOOL") THEN value.BOOL
            ELSE IF Has(value, "L")
                 THEN [i \in DOMAIN value.L |->
                          convert_dynamodb_to_json([item |-> value.L[i]]).item]
            ELSE IF Has(value, "M") THEN convert_dynamodb_to_json(value.M)
            ELSE None
    IN  [key \in {k \in DOMAIN dynamodb_item : DOMAIN dynamodb_item[k] \cap TypeTags # {}} |->
            Value(dynamodb_item[key])]

\* the attributes get_change_summary compares, with their labels
SummaryFields ==
    << <<"lifecycle_state", "State">>, <<"rate_limit", "Rate limit">>,
       <<"burst_limit", "Burst limit">>, <<"quota_limit", "Quota">>, <<"tier", "Tier">> >>

\* old_values.get(field) != new_values.get(field), for values that are not None
Differ(old_values, new_values, field) ==
    \/ Has(old_values, field) # Has(new_values, field)
    \/ Has(old_values, field) /\ Has(new_values, field) /\ old_values[field] # new_values[field]

RECURSIVE Changes(_, _, _)
Changes(old_values, new_values, fields) ==
    IF fields = << >> THEN << >>
    ELSE LET field == Head(fields)[1]
             rest == Changes(old_values, new_values, Tail(fields))
         IN  IF Differ(old_values, new_values, field)
             THEN <<[label |-> Head(fields)[2], field |-> field]>> \o rest
             ELSE rest

\* the summary is the sequence of the parts that '; ' joins
get_change_summary(old_values, new_values) ==
    IF Changes(old_values, new_values, SummaryFields) # << >>
    THEN Changes(old_values, new_values, SummaryFields)
    ELSE <<[label |-> "Minor updates"]>>

\* the entry lambda_handler builds for one stream record at time `timestamp`
log_entry(record, timestamp) ==
    LET images == record.dynamodb
        old == IF Has(images, "OldImage")
               THEN [old_values |-> convert_dynamodb_to_json(images.OldImage)] ELSE EmptyDict
        new == IF Has(images, "NewImage")
               THEN [new_values |-> convert_dynamodb_to_json(images.NewImage)] ELSE EmptyDict
        summary ==
            IF record.eventName = "INSERT" THEN <<[label |-> "Usage plan created"]>>
            ELSE IF record.eventName = "MODIFY"
                 THEN get_change_summary(Get(old, "old_values", EmptyDict),
                                         Get(new, "new_values", EmptyDict))
            ELSE <<[label |-> "Usage plan deleted"]>>
    IN  [plan_id |-> images.Keys.plan_id.S, version_timestamp |-> timestamp,
         event_type |-> record.eventName, timestamp |-> timestamp,
         source |-> "dynamodb-stream", change_summary |-> summary] @@ old @@ new

\* the version log after the loop of lambda_handler has handled Records[i..]:
\* the clock reads `now` for record i and has moved on by the next reading;
\* the put_item of the records in F fails
RECURSIVE LogRecords(_, _, _, _, _)
LogRecords(log, Records, i, now, F) ==
    IF i > Len(Records) THEN log
    ELSE IF Records[i].eventSource # "aws:dynamodb"
         THEN LogRecords(log, Records, i + 1, now, F)
    ELSE LET entry == log_entry(Records[i], now)
             written == IF i \in F THEN log
                        ELSE Put(log, <<entry.plan_id, entry.version_timestamp>>, entry)
         IN  LogRecords(written, Records, i + 1, now + 1, F)

\* lambda_handler(event, context) of version_logger
version_logger(event, now, F) ==
    /\ version_log' = LogRecords(version_log, event.Records, 1, now, F)
    /\ last' = [op |-> "version_logger", Records |-> event.Records, failed |-> F,
                statusCode |-> 200, processed |-> Len(event.Records)]
    /\ UNCHANGED <<table, live, nextId>>

----------------------------------------------------------------------------
(* The system.  Invocations run one at a time; `last` holds what the running  *)
(* invocation read, did and returned until its response is delivered.  Any    *)
(* AWS call an invocation makes may fail.                                     *)

\* the response of the invocation is delivered
Respond ==
    /\ last # NoOp
    /\ last' = NoOp
    /\ UNCHANGED <<table, live, nextId, version_log>>

\* request bodies of POST /usage-plans used in Spec
LifecycleInputs ==
    {t @@ [stages |-> IF t.tier = "Basic" THEN <<ArnDev, ArnStage>> ELSE << >>] : t \in Tiers}

\* no invocation is running
Idle == last = NoOp

\* out-of-band changes, with API Gateway handing out at most `cap` ids
External(cap) ==
    \/ \E t \in Tiers : Idle /\ nextId <= cap /\ ExternalCreate(t) /\ UNCHANGED version_log
    \/ \E id \in GeneratedIds : Idle /\ ExternalDelete(id) /\ UNCHANGED version_log

\* invocations of the handlers that write governance records
Lifecycle(cap) ==
    \/ \E plan_data \in LifecycleInputs, F \in FailureSets({"create_usage_plan", "put_item"}) :
          Idle /\ nextId <= cap /\ create_usage_plan(plan_data, F) /\ UNCHANGED version_log
    \/ \E plan_id \in GeneratedIds, F \in FailureSets({"update_item", "sns"}) :
          Idle /\ deprecate_plan(plan_id, F) /\ UNCHANGED version_log
    \/ \E deleted_plan_id \in GeneratedIds, F \in FailureSets(RecoveryCalls) :
          /\ Idle
          /\ Recreates(deleted_plan_id, F) => nextId <= cap
          /\ usage_plan_recovery(deleted_plan_id, F)
          /\ UNCHANGED version_log

\* invocations of the handlers that reconcile one plan
Reconcile ==
    \/ \E plan_id \in GeneratedIds, F \in FailureSets(EnforceCalls) :
          Idle /\ enforce_configuration_for_plan(plan_id, F) /\ UNCHANGED version_log
    \/ \E usage_plan_id \in GeneratedIds, F \in FailureSets(EvaluateCalls) :
          Idle /\ evaluate_resource_compliance(usage_plan_id, F) /\ UNCHANGED version_log

Next ==
    \/ Respond
    \/ External(MaxPlans)
    \/ Lifecycle(MaxPlans)
    \/ Reconcile

\* plans are created, deprecated, deleted out of band, recreated and reconciled
Spec == Init /\ [][Next]_vars

\* Spec with one more id, for the DeleteUsagePlan event of a plan that was
\* recreated being delivered again
NextRedelivery ==
    \/ Respond
    \/ External(MaxPlans + 1)
    \/ Lifecycle(MaxPlans + 1)

SpecRedelivery == Init /\ [][NextRedelivery]_vars

----------------------------------------------------------------------------
(* The periodic evaluation over the plans the handlers create and lose *)

Periodic == \E F \in FailureSets(PeriodicCalls) : Idle /\ periodic_evaluation(F) /\ UNCHANGED version_log

NextPeriodic ==
    \/ Respond
    \/ External(MaxPlans)
    \/ Lifecycle(MaxPlans)
    \/ Periodic

SpecPeriodic == Init /\ [][NextPeriodic]_vars

----------------------------------------------------------------------------
(* The annotations of evaluation results *)

Annotate ==
    \E n \in 0..MaxMessage, c \in 0..2 : Idle /\ create_evaluation_result(Message(n, c)) /\ UNCHANGED version_log

NextAnnotation ==
    \/ Respond
    \/ Annotate

SpecAnnotation == Init /\ [][NextAnnotation]_vars

----------------------------------------------------------------------------
(* The stage references of every API id and stage name *)

StageReference ==
    \E api_id \in Names, stage_name \in Names : Idle /\ parse_stage_arn(api_id, stage_name) /\ UNCHANGED version_log

NextStageReference ==
    \/ Respond
    \/ StageReference

SpecStageReference == Init /\ [][NextStageReference]_vars

----------------------------------------------------------------------------
(* The version log of the stream batches of two governance records *)

\* the image of the governance record of a Basic plan in a lifecycle state
ImageOf(plan_id, lifecycle_state) ==
    [plan_id |-> [S |-> plan_id], tier |-> [S |-> "Basic"], rate_limit |-> [N |-> StrOfInt(50)],
     lifecycle_state |-> [S |-> lifecycle_state], deleted |-> [BOOL |-> FALSE],
     stages |-> [L |-> <<[S |-> ArnDev]>>]]

\* the records a stream batch is made of: the creation, the deprecation and
\* the removal of a governance record, and a record of another event source
StreamRecords ==
    UNION {
        { [eventSource |-> "aws:dynamodb", eventName |-> "INSERT",
           dynamodb |-> [Keys |-> [plan_id |-> [S |-> id]], NewImage |-> ImageOf(id, "Active")]],
          [eventSource |-> "aws:dynamodb", eventName |-> "MODIFY",
           dynamodb |-> [Keys |-> [plan_id |-> [S |-> id]], OldImage |-> ImageOf(id, "Active"),
                         NewImage |-> ImageOf(id, "Deprecated")]],
          [eventSource |-> "aws:dynamodb", eventName |-> "REMOVE",
           dynamodb |-> [Keys |-> [plan_id |-> [S |-> id]],
                         OldImage |-> ImageOf(id, "Deprecated")]] } : id \in {IdOf(1), IdOf(2)} }
    \cup { [eventSource |-> "aws:kinesis", eventName |-> "INSERT",
            dynamodb |-> [Keys |-> [plan_id |-> [S |-> IdOf(1)]]]] }

StreamBatches == UNION {[1..n -> StreamRecords] : n \in 1..MaxBatch}

\* the latest version_timestamp of the version log, 0 when it is empty
LatestTimestamp ==
    IF DOMAIN version_log = {} THEN 0
    ELSE CHOOSE t \in {key[2] : key \in DOMAIN version_log} :
             \A key \in DOMAIN version_log : key[2] <= t

\* a batch of the stream is delivered; time has passed since the latest entry
VersionLogger ==
    \E Records \in StreamBatches, now \in 1..MaxClock, F \in FailureSets(1..MaxBatch) :
        /\ Idle
        /\ F \subseteq DOMAIN Records
        /\ now > LatestTimestamp
        /\ now + Len(Records) - 1 <= MaxClock
        /\ version_logger([Records |-> Records], now, F)

NextVersionLog ==
    \/ Respond
    \/ VersionLogger

SpecVersionLog == Init /\ [][NextVersionLog]_vars

----------------------------------------------------------------------------
(* One managed plan and its drift *)

\* the stores after create_usage_plan(plan_data) has created the first plan
InitDrift ==
    \E plan_data \in CreateInputs :
        /\ table = (IdOf(1) :> CreatedItem(IdOf(1), plan_data))
        /\ live = (IdOf(1) :> CreatedPlan(IdOf(1), plan_data))
        /\ nextId = 2
        /\ last = NoOp
        /\ version_log = EmptyDict

UpdateCalls == {"update_item", "update_item_stages", "update_usage_plan",
                "add_stage_1", "add_stage_2"}

Drift ==
    \/ \E id \in GeneratedIds, op \in ExternalOps : Idle /\ ExternalUpdate(id, op) /\ UNCHANGED version_log
    \/ \E plan_id \in GeneratedIds, plan_data \in UpdateInputs, F \in FailureSets(UpdateCalls) :
          Idle /\ update_usage_plan(plan_id, plan_data, F) /\ UNCHANGED version_log
    \/ \E event_name \in ChangeEvents, plan_id \in GeneratedIds, F \in FailureSets(ChangeCalls) :
          Idle /\ handle_usage_plan_change(event_name, plan_id, F) /\ UNCHANGED version_log

NextDrift ==
    \/ Respond
    \/ Drift
    \/ Reconcile

SpecDrift == InitDrift /\ [][NextDrift]_vars

----------------------------------------------------------------------------
(* One managed plan, the loss of its live plan and its recreation *)

\* invocations of usage_plan_recovery in which calls among `calls` fail, API
\* Gateway handing out at most `cap` ids
Recovery(cap, calls) ==
    \E deleted_plan_id \in GeneratedIds, F \in FailureSets(calls) :
        /\ Idle
        /\ Recreates(deleted_plan_id, F) => nextId <= cap
        /\ usage_plan_recovery(deleted_plan_id, F)
        /\ UNCHANGED version_log

Deprecation ==
    \E plan_id \in GeneratedIds, F \in FailureSets({"update_item", "sns"}) :
        Idle /\ deprecate_plan(plan_id, F) /\ UNCHANGED version_log

Loss == \E id \in GeneratedIds : Idle /\ ExternalDelete(id) /\ UNCHANGED version_log

\* the stores after create_usage_plan has created a Basic plan for both stages
InitLineage ==
    \E plan_data \in {d \in CreateInputs : d.tier = "Basic" /\ d.stages = <<ArnDev, ArnStage>>} :
        /\ table = (IdOf(1) :> CreatedItem(IdOf(1), plan_data))
        /\ live = (IdOf(1) :> CreatedPlan(IdOf(1), plan_data))
        /\ nextId = 2
        /\ last = NoOp
        /\ version_log = EmptyDict

NextLineage ==
    \/ Respond
    \/ Loss
    \/ Recovery(MaxPlans + 1, RecoveryCalls)

SpecLineage == InitLineage /\ [][NextLineage]_vars

\* request bodies of PUT /usage-plans/{id} used in SpecLife
LifeInputs == {plan_data \in UpdateInputs : LimitKeys \subseteq DOMAIN plan_data}

NextLife ==
    \/ Respond
    \/ Loss
    \/ Deprecation
    \/ Recovery(MaxPlans, {"create_usage_plan", "put_item", "update_item"})
    \/ \E plan_id \in GeneratedIds, plan_data \in LifeInputs,
          F \in FailureSets({"update_item", "update_usage_plan"}) :
          Idle /\ update_usage_plan(plan_id, plan_data, F) /\ UNCHANGED version_log
    \/ \E plan_id \in GeneratedIds, F \in FailureSets({"update_usage_plan"}) :
          Idle /\ enforce_configuration_for_plan(plan_id, F) /\ UNCHANGED version_log

SpecLife == InitLineage /\ [][NextLife]_vars

----------------------------------------------------------------------------
(* A creation and the enforcement of its CreateUsagePlan event.  The creating *)
(* handler makes its two calls in two steps: `last` holds the creating        *)
(* invocation, `pc` the call it makes next and `notification` whether the     *)
(* CloudTrail event of its create_usage_plan call is still to be delivered.   *)

\* create_usage_plan(plan_data) up to the response of
\* apigateway.create_usage_plan (usage_plan_manager/handler.py 40-51)
CreationCreates(plan_data) ==
    LET id == IdOf(nextId)
    IN  /\ live' = Put(live, id, CreatedPlan(id, plan_data))
        /\ nextId' = nextId + 1
        /\ last' = [op |-> "create_usage_plan", pc |-> "put_item", plan_id |-> id,
                    old_plan_id |-> None, item |-> CreatedItem(id, plan_data),
                    notification |-> "CreateUsagePlan", enforcement |-> None]
        /\ UNCHANGED <<table, version_log>>

\* usage_plan_recovery for deleted_plan_id up to the return of
\* recreate_usage_plan (usage_plan_recovery/handler.py 44-60)
RecoveryRecreates(deleted_plan_id) ==
    /\ deleted_plan_id \in (GeneratedIds \ DOMAIN live) \cap DOMAIN table
    /\ LET plan_metadata == table[deleted_plan_id]
           new_plan_id == recreate_usage_plan(plan_metadata, {})
       IN  /\ live' = Put(live, new_plan_id, RecreatedPlan(new_plan_id, plan_metadata, {}))
           /\ nextId' = nextId + 1
           /\ last' = [op |-> "usage_plan_recovery", pc |-> "update_dynamodb_record",
                       plan_id |-> new_plan_id, old_plan_id |-> deleted_plan_id,
                       item |-> plan_metadata,
                       notification |-> "CreateUsagePlan", enforcement |-> None]
           /\ UNCHANGED <<table, version_log>>

\* the creating invocation is between its two calls or has made both
Creating == Has(last, "pc")

\* the creating invocation writes the governance record: table.put_item of
\* create_usage_plan (usage_plan_manager/handler.py 54-66),
\* update_dynamodb_record of the recovery (usage_plan_recovery/handler.py 62-64)
CreationStores ==
    /\ Creating
    /\ last.pc # "done"
    /\ table' = IF last.pc = "put_item" THEN Put(table, last.plan_id, last.item)
                ELSE update_dynamodb_record(last.old_plan_id, last.plan_id, last.item, {})
    /\ last' = [last EXCEPT !.pc = "done"]
    /\ UNCHANGED <<live, nextId, version_log>>

\* the CreateUsagePlan event of the creating invocation reaches
\* configuration_enforcement, before or after the record is written
CreateUsagePlanDelivered(F) ==
    /\ Creating
    /\ last.notification = "CreateUsagePlan"
    /\ LET outcome == ChangeOutcome("CreateUsagePlan", last.plan_id, F)
       IN  /\ live' = outcome.live
           /\ last' = [last EXCEPT !.notification = "delivered",
                                   !.enforcement = outcome.action]
    /\ UNCHANGED <<table, nextId, version_log>>

\* the creating invocation returns
CreationReturns ==
    /\ Creating
    /\ last.pc = "done"
    /\ Respond

NextCreation ==
    \/ CreationReturns
    \/ Loss
    \/ \E plan_data \in LifecycleInputs :
          Idle /\ nextId <= MaxPlans + 1 /\ CreationCreates(plan_data)
    \/ \E deleted_plan_id \in GeneratedIds :
          Idle /\ nextId <= MaxPlans + 1 /\ RecoveryRecreates(deleted_plan_id)
    \/ CreationStores
    \/ \E F \in FailureSets({"get_item", "get_usage_plan", "delete_usage_plan"}) :
          CreateUsagePlanDelivered(F)

SpecCreation == Init /\ [][NextCreation]_vars

----------------------------------------------------------------------------
(* Two executions of usage_plan_recovery for one DeleteUsagePlan event.  The  *)
(* event is delivered twice and the two executions overlap: `last` holds the  *)
(* call each one makes next, the metadata it has read and the id of the plan  *)
(* it has created.                                                            *)

Executions == {1, 2}

\* the DeleteUsagePlan event of a plan that is gone reaches two executions
OverlapStarts(deleted_plan_id) ==
    /\ deleted_plan_id \in (GeneratedIds \ DOMAIN live) \cap DOMAIN table
    /\ last' = [op |-> "usage_plan_recovery_twice", plan_id |-> deleted_plan_id,
                executions |-> [i \in Executions |->
                                   [pc |-> "get_item", metadata |-> << >>,
                                    new_plan_id |-> None]]]
    /\ UNCHANGED <<table, live, nextId, version_log>>

\* both executions of the event are under way
Overlapping == Has(last, "executions")

\* execution i reads the metadata of the deleted plan (handler.py 44-52)
OverlapReads(i) ==
    /\ Overlapping
    /\ last.executions[i].pc = "get_item"
    /\ last' = [last EXCEPT !.executions[i] =
                   IF last.plan_id \in DOMAIN table
                   THEN [pc |-> "recreate_usage_plan", metadata |-> <<table[last.plan_id]>>,
                         new_plan_id |-> None]
                   ELSE [pc |-> "done", metadata |-> << >>, new_plan_id |-> None]]
    /\ UNCHANGED <<table, live, nextId, version_log>>

\* execution i recreates the plan from the metadata it read (handler.py 59-60)
OverlapRecreates(i) ==
    /\ Overlapping
    /\ last.executions[i].pc = "recreate_usage_plan"
    /\ LET plan_metadata == last.executions[i].metadata[1]
           new_plan_id == recreate_usage_plan(plan_metadata, {})
       IN  /\ live' = Put(live, new_plan_id, RecreatedPlan(new_plan_id, plan_metadata, {}))
           /\ nextId' = nextId + 1
           /\ last' = [last EXCEPT !.executions[i] =
                          [pc |-> "update_dynamodb_record", metadata |-> <<plan_metadata>>,
                           new_plan_id |-> new_plan_id]]
    /\ UNCHANGED <<table, version_log>>

\* execution i writes the lineage of the plan it created (handler.py 62-64)
OverlapStores(i) ==
    /\ Overlapping
    /\ last.executions[i].pc = "update_dynamodb_record"
    /\ table' = update_dynamodb_record(last.plan_id, last.executions[i].new_plan_id,
                                       last.executions[i].metadata[1], {})
    /\ last' = [last EXCEPT !.executions[i].pc = "done"]
    /\ UNCHANGED <<live, nextId, version_log>>

\* both executions have returned
OverlapReturns ==
    /\ Overlapping
    /\ \A i \in Executions : last.executions[i].pc = "done"
    /\ Respond

NextOverlap ==
    \/ OverlapReturns
    \/ Loss
    \/ \E deleted_plan_id \in GeneratedIds :
          Idle /\ nextId + 1 <= MaxPlans + 2 /\ OverlapStarts(deleted_plan_id)
    \/ \E i \in Executions : OverlapReads(i)
    \/ \E i \in Executions : OverlapRecreates(i)
    \/ \E i \in Executions : OverlapStores(i)

SpecOverlap == InitDrift /\ [][NextOverlap]_vars

----------------------------------------------------------------------------
(* Enforcement and evaluation next to the handler that updates records: one   *)
(* managed plan, plans created and deleted out of band, updates of the        *)
(* managed records, change events, reconciliation and the periodic evaluation *)

NextFrame ==
    \/ Respond
    \/ External(MaxPlans)
    \/ \E plan_id \in GeneratedIds, plan_data \in LifeInputs,
          F \in FailureSets({"update_item", "update_usage_plan"}) :
          Idle /\ update_usage_plan(plan_id, plan_data, F) /\ UNCHANGED version_log
    \/ \E event_name \in ChangeEvents, plan_id \in GeneratedIds, F \in FailureSets(ChangeCalls) :
          Idle /\ handle_usage_plan_change(event_name, plan_id, F) /\ UNCHANGED version_log
    \/ Reconcile
    \/ Periodic

SpecFrame == InitLineage /\ [][NextFrame]_vars

----------------------------------------------------------------------------
(* Properties of reconciliation: which live plans it deletes *)

\* the limits of a live plan and of a governance record are the same numbers
SameTriple(rec, plan) ==
    /\ LimitKeys \subseteq DOMAIN rec
    /\ Has(plan, "throttle") /\ Has(plan, "quota")
    /\ FloatEqInt(plan.throttle.rateLimit, rec.rate_limit)
    /\ plan.throttle.burstLimit = rec.burst_limit
    /\ plan.quota.limit = rec.quota_limit

\* a governance record matches a live plan by one of the resolver tiers:
\* its key is the plan's id, its key or name is the plan's name, or its
\* limits are the plan's
MatchesSomeTier(rec, plan) ==
    \/ Get(rec, "plan_id", None) = plan.id
    \/ Get(rec, "plan_id", None) = plan.name
    \/ Get(rec, "name", None) = plan.name
    \/ SameTriple(rec, plan)

\* the invocation that is running is a reconciliation that deleted the live
\* plan it was about
ReconciliationDeleted ==
    /\ last.op \in {"enforce_configuration_for_plan", "evaluate_resource_compliance"}
    /\ last.deleted_live

\* the live plan the running reconciliation read
PlanRead ==
    IF last.op = "evaluate_resource_compliance" THEN last.api_plan ELSE last.current_config

\* C1: a reconciliation (enforce_configuration_for_plan or
\* evaluate_resource_compliance) deletes a live plan only when no governance
\* record matches it by key, by name or by an equal triple of limits.
C1_DeletesOnlyUnmatched ==
    ReconciliationDeleted =>
        \A k \in DOMAIN table : ~MatchesSomeTier(table[k], PlanRead)

\* the running invocation is an evaluation that read the live plan and the
\* table, and a governance record is stored under the id of that plan
EvaluatedKeyedPlan ==
    /\ last.op = "evaluate_resource_compliance"
    /\ Has(last, "api_plan")
    /\ last.Annotation # "Error getting API Gateway usage plan"
    /\ last.plan_id \in DOMAIN table

\* C2: when a governance record's plan_id is the id of the live plan being
\* evaluated, the evaluation resolves that record as the plan's counterpart
\* (the direct key wins over the name and the configuration tiers), so the
\* plan is never treated as an orphan.
C2_DirectKeyWins ==
    EvaluatedKeyedPlan =>
        /\ ~last.deleted_live
        /\ Has(last, "db_plan")
        /\ last.db_plan.plan_id = last.plan_id

----------------------------------------------------------------------------
(* Properties of recovery *)

\* the running invocation is a recovery that read the governance record of
\* its plan and created a live plan from it
Recreated ==
    /\ last.op = "usage_plan_recovery"
    /\ Has(last, "metadata")
    /\ last.new_plan_id # None

\* the attributes update_dynamodb_record sets on the old record
LineageKeys == {"deleted", "recreated_as", "deleted_at"}

\* the end state of a recovery of old_id as new_id from the record `metadata`
RecoveredEndState(old_id, new_id, metadata) ==
    /\ new_id # old_id
    /\ new_id = IdOf(nextId - 1)
    /\ new_id \in DOMAIN live
    /\ new_id \in DOMAIN table
    /\ table[new_id].plan_id = new_id
    /\ Get(table[new_id], "recreated_from", None) = old_id
    /\ old_id \in DOMAIN table
    /\ Get(table[old_id], "deleted", FALSE) = TRUE
    /\ Get(table[old_id], "recreated_as", None) = new_id
    /\ Has(table[old_id], "deleted_at")
    /\ \A k \in DOMAIN metadata \ LineageKeys : table[old_id][k] = metadata[k]

C4_LineageRoundTrip ==
    \A k \in DOMAIN table :
        Get(table[k], "deleted", FALSE) = TRUE =>
            /\ Has(table[k], "recreated_as")
            /\ table[k].recreated_as \in DOMAIN table
            /\ Get(table[table[k].recreated_as], "recreated_from", None) = k

\* the step is a trigger (recovery, enforcement, evaluation) for the id of a
\* governance record that is soft-deleted
TriggerOnSoftDeleted ==
    /\ last'.op \in {"usage_plan_recovery", "enforce_configuration_for_plan",
                     "evaluate_resource_compliance"}
    /\ last'.plan_id \in DOMAIN table
    /\ Get(table[last'.plan_id], "deleted", FALSE) = TRUE

\* C5: a soft-deleted governance record is never acted upon again: a later
\* trigger for its id (a repeated DeleteUsagePlan event, an enforcement, an
\* evaluation) creates no live plan, writes no governance record and changes
\* no live plan.
C5_SoftDeletedIsInert ==
    [][TriggerOnSoftDeleted => (table' = table /\ live' = live)]_vars

\* the stages of a live plan as the stage references the table stores
LiveStageArns(plan) ==
    {StageArn(AWS_REGION, st.apiId, st.stage) : st \in plan.apiStages}

\* C6: after a recreation, the stages of the new governance record are
\* exactly the stages whose association with the new live plan succeeded.
C6_NewRecordListsAssociatedStages ==
    (Recreated /\ last.put_ok) =>
        Range(Get(table[last.new_plan_id], "stages", << >>))
            = LiveStageArns(live[last.new_plan_id])

\* the step is a recovery that read the governance record and whose create
\* of the live plan failed
CreateFailed ==
    /\ last'.op = "usage_plan_recovery"
    /\ Has(last', "metadata")
    /\ last'.new_plan_id = None

\* C7: when recreation fails to create the live plan, no governance record
\* is written or modified (the old record stays as it was, no new record
\* exists), no live plan appears, and the caller gets the 500 failure
\* response without a RECOVERED notification.
C7_CreateFailureLeavesTable ==
    [][CreateFailed =>
          /\ table' = table
          /\ live' = live
          /\ last'.statusCode = 500
          /\ \A i \in DOMAIN last'.notifications :
                 last'.notifications[i].status # "RECOVERED"]_vars

C7_Witness ==
    /\ last.op = "usage_plan_recovery"
    /\ Has(last, "metadata")
    /\ last.new_plan_id = None
    /\ last.statusCode = 500
    /\ ~Get(table[last.plan_id], "deleted", FALSE)
    /\ ~Has(table[last.plan_id], "recreated_as")

----------------------------------------------------------------------------
(* Properties of drift detection and correction *)

\* the governance records and live plans that are both present under one id
ManagedPairs == DOMAIN table \cap DOMAIN live

\* the stage set of the record is the stage set of the live plan
StagesEqual(db_plan, api_plan) ==
    Range(Get(db_plan, "stages", << >>)) = LiveStageArns(api_plan)

\* rate limit, burst limit, quota limit and stage set are equal
AllFourEqual(db_plan, api_plan) ==
    /\ SameTriple(db_plan, api_plan)
    /\ StagesEqual(db_plan, api_plan)

\* the same, the limits compared as integers: int() of either side
AllFourEqualAsIntegers(db_plan, api_plan) ==
    /\ IntOfFloat(api_plan.throttle.rateLimit) = db_plan.rate_limit
    /\ api_plan.throttle.burstLimit = db_plan.burst_limit
    /\ api_plan.quota.limit = db_plan.quota_limit
    /\ StagesEqual(db_plan, api_plan)

\* the running invocation is an evaluation that found the governance record
\* of its live plan
EvaluatedPair ==
    /\ last.op = "evaluate_resource_compliance"
    /\ Has(last, "db_plan")

\* C8 as stated: for a governance record and a live plan that are both
\* present the classification is COMPLIANT if and only if rate limit, burst
\* limit, quota limit and stage set are all equal.
C8_CompliantIffEqual_AsStated ==
    /\ \A id \in ManagedPairs :
          Classification(table[id], live[id]).ComplianceType = "COMPLIANT"
              <=> AllFourEqual(table[id], live[id])
    /\ EvaluatedPair =>
          (last.ComplianceType = "COMPLIANT" <=> AllFourEqual(last.db_plan, last.api_plan))

\* C8: for a governance record and a live plan that are both present the
\* classification is COMPLIANT if and only if rate limit, burst limit and
\* quota limit are equal as integers (the live rate limit truncated) and the
\* stage sets are equal; a mismatch in one of the four gives NON_COMPLIANT.
C8_CompliantIffEqualAsIntegers ==
    /\ \A id \in ManagedPairs :
          /\ Classification(table[id], live[id]).ComplianceType
                 \in {"COMPLIANT", "NON_COMPLIANT"}
          /\ Classification(table[id], live[id]).ComplianceType = "COMPLIANT"
                 <=> AllFourEqualAsIntegers(table[id], live[id])
    /\ EvaluatedPair =>
          (last.ComplianceType = "COMPLIANT"
              <=> AllFourEqualAsIntegers(last.db_plan, last.api_plan))

\* an evaluation classified NON_COMPLIANT a pair that differs in the stage
\* set alone
C8_Witness ==
    /\ EvaluatedPair
    /\ last.ComplianceType = "NON_COMPLIANT"
    /\ SameTriple(last.db_plan, last.api_plan)
    /\ ~StagesEqual(last.db_plan, last.api_plan)

\* the path of the patch operation for a limit
PatchPath ==
    [rate_limit |-> "/throttle/rateLimit", burst_limit |-> "/throttle/burstLimit",
     quota_limit |-> "/quota/limit"]

\* the live value of a limit, as a float
LiveLimit(plan, a) ==
    CASE a = "rate_limit" -> plan.throttle.rateLimit
      [] a = "burst_limit" -> Float(plan.throttle.burstLimit)
      [] a = "quota_limit" -> Float(plan.quota.limit)

\* the limits whose live value differs from the record
Differing(rec, plan) == {a \in LimitKeys : LiveLimit(plan, a) # Float(rec[a])}

\* the running invocation is an enforcement that read the governance record
\* and the live plan
EnforcedPair ==
    /\ last.op = "enforce_configuration_for_plan"
    /\ Has(last, "governance_record")
    /\ Has(last, "current_config")
    /\ LimitKeys \subseteq DOMAIN last.governance_record

\* C9: the patch of an enforcement holds a replace operation for exactly the
\* limits (rate, burst, quota) whose live value differs from the record, each
\* set to the record's value; once applied, the limits that matched and
\* everything else of the live plan are as they were.
C9_PatchIsExactlyTheDrift ==
    EnforcedPair =>
        LET rec == last.governance_record
            before == last.current_config
            ops == last.corrections_needed
            drift == Differing(rec, before)
        IN  /\ {ops[i].path : i \in DOMAIN ops} = {PatchPath[a] : a \in drift}
            /\ Len(ops) = Cardinality(drift)
            /\ \A i \in DOMAIN ops :
                   /\ ops[i].op = "replace"
                   /\ \A a \in drift :
                          ops[i].path = PatchPath[a] => ops[i].value = StrOfInt(rec[a])
            /\ last.applied =>
                   LET after == live[last.plan_id]
                   IN  /\ \A a \in LimitKeys :
                              LiveLimit(after, a) = IF a \in drift THEN Float(rec[a])
                                                    ELSE LiveLimit(before, a)
                       /\ after.name = before.name
                       /\ after.apiStages = before.apiStages
                       /\ after.quota.period = before.quota.period
            /\ ~last.applied => live[last.plan_id] = before

\* an enforcement applied a patch that leaves at least one limit alone
C9_Witness ==
    /\ EnforcedPair
    /\ last.applied
    /\ Differing(last.governance_record, last.current_config) \notin {{}, LimitKeys}
    /\ Differing(last.governance_record, live[last.plan_id]) = {}

\* C10: once enforce_configuration_for_plan has applied its correction to a
\* drifted managed plan successfully, the drift detector classifies the
\* governance record and the live plan COMPLIANT.
C10_CorrectedIsCompliant ==
    (EnforcedPair /\ last.applied /\ last.statusCode = 200) =>
        Classification(table[last.plan_id], live[last.plan_id]).ComplianceType = "COMPLIANT"

----------------------------------------------------------------------------
(* Properties of repeated reconciliation *)

\* an outcome of a reconciliation that changes no live plan and sends nothing
IsNoOp(outcome) ==
    /\ outcome.live = live
    /\ outcome.notifications = << >>
    /\ ~outcome.applied
    /\ ~outcome.deleted_live

\* an evaluation outcome that changes no live plan
IsNoOpEvaluation(outcome) ==
    /\ outcome.live = live
    /\ ~outcome.deleted_live

\* what a report says besides its status code (the action names the status)
Body(report) == [k \in DOMAIN report \ {"statusCode"} |-> report[k]]

\* the step is the run of enforce_configuration_for_plan(plan_id) in which no
\* AWS call fails
EnforcementRun(plan_id) ==
    /\ last = NoOp
    /\ last'.op = "enforce_configuration_for_plan"
    /\ last'.plan_id = plan_id
    /\ Body(last') = Body(Report(EnforceOutcome(plan_id, {})))
    /\ live' = EnforceOutcome(plan_id, {}).live
    /\ table' = table

\* the step is the evaluation of usage plan usage_plan_id in which no AWS call
\* fails
EvaluationRun(usage_plan_id) ==
    /\ last = NoOp
    /\ last'.op = "evaluate_resource_compliance"
    /\ last'.plan_id = usage_plan_id
    /\ last' = Report(EvaluateUsagePlanOutcome(usage_plan_id, {}))
    /\ live' = EvaluateUsagePlanOutcome(usage_plan_id, {}).live
    /\ table' = table

\* the governance record and the live plan of id are both present and agree
Agreeing(id) ==
    /\ id \in ManagedPairs
    /\ AllFourEqual(table[id], live[id])

\* C11: reconciliation is idempotent.  On a governance record and live plan
\* that agree, a run of the enforcement or of the evaluation changes neither
\* store and reports no drift / COMPLIANT; and once a reconciliation has run,
\* running it again on the pair it left is a no-op (no store changes, no
\* patch, no deletion, no notification) whose output a further run repeats.
C11_ReconciliationIsIdempotent ==
    [][\A id \in GeneratedIds :
          /\ EnforcementRun(id) =>
                /\ Agreeing(id) =>
                      /\ live' = live
                      /\ last'.action = "no_drift_detected"
                      /\ last'.notifications = << >>
                /\ IsNoOp(EnforceOutcome(id, {}))'
                /\ live' = live => Body(Report(EnforceOutcome(id, {})))' = Body(last')
          /\ EvaluationRun(id) =>
                /\ Agreeing(id) =>
                      /\ live' = live
                      /\ last'.ComplianceType = "COMPLIANT"
                /\ IsNoOpEvaluation(EvaluateUsagePlanOutcome(id, {}))'
                /\ live' = live =>
                      /\ EvaluateUsagePlanOutcome(id, {}).ComplianceType' = last'.ComplianceType
                      /\ EvaluateUsagePlanOutcome(id, {}).Annotation' = last'.Annotation]_vars

\* an enforcement has just corrected a drifted plan, and running it again
\* finds no drift
C11_Witness ==
    /\ EnforcedPair
    /\ last.applied
    /\ last.statusCode = 200
    /\ EnforceOutcome(last.plan_id, {}).action = "no_drift_detected"
    /\ IsNoOp(EnforceOutcome(last.plan_id, {}))

----------------------------------------------------------------------------
(* Properties of enforcement: absent live plans and failures *)

\* a governance record that is not soft-deleted exists for the id and its
\* live plan is absent
LiveDeleted(id) ==
    /\ id \in DOMAIN table
    /\ ~Get(table[id], "deleted", FALSE)
    /\ id \notin DOMAIN live

\* C12: whenever a governance record that is not soft-deleted exists and its
\* live plan is absent, a reconciliation invocation for that id (here an
\* enforcement invocation none of whose calls fails) triggers the recreation
\* of the live plan: a new live plan exists after it.
C12_LiveDeletedTriggersRecreation ==
    [][\A id \in GeneratedIds :
          (EnforcementRun(id) /\ LiveDeleted(id)) => DOMAIN live' # DOMAIN live]_vars

\* the step is an invocation of enforce_configuration_for_plan
EnforcementStep ==
    /\ last = NoOp
    /\ last'.op = "enforce_configuration_for_plan"

\* the enforcement could not read the governance record, or the live plan of
\* a governance record
ReadFailed(outcome) ==
    outcome.action \in {"Error reading governance record", "Error reading API Gateway config"}

\* the enforcement derived a patch and the patch was not applied
PatchFailed(outcome) ==
    /\ outcome.corrections_needed # << >>
    /\ ~outcome.applied

\* C13: in enforcement, a failure to read the governance record or the live
\* plan ends the invocation with an error response (500) before any live
\* mutation or notification; a
\* failure to apply the patch sends the correction-failed notification
\* (unless that publish fails too, which raises) and changes neither the live
\* plan nor the governance record, so that the next invocation derives the
\* same patch and applies it.
C13_EnforcementFailures ==
    [][EnforcementStep =>
          /\ table' = table
          /\ ReadFailed(last') =>
                /\ live' = live
                /\ last'.notifications = << >>
                /\ last'.statusCode = 500
                /\ ~last'.applied
          /\ PatchFailed(last') =>
                /\ live' = live
                /\ \/ /\ last'.action = "Failed to apply corrections"
                      /\ last'.statusCode = 500
                      /\ last'.notifications =
                            <<[event |-> "configuration_correction_failed",
                               plan_id |-> last'.plan_id]>>
                   \/ /\ last'.action = "exception"
                      /\ last'.notifications = << >>
                /\ \A id \in GeneratedIds :
                      last'.plan_id = id =>
                          /\ EnforceOutcome(id, {}).corrections_needed'
                                = last'.corrections_needed
                          /\ EnforceOutcome(id, {}).applied']_vars

\* an enforcement whose patch failed sent the correction-failed notification
C13_Witness ==
    /\ EnforcedPair
    /\ PatchFailed(last)
    /\ last.action = "Failed to apply corrections"
    /\ last.notifications # << >>
    /\ live[last.plan_id] = last.current_config

\* the limits of the drift that have the record's value in the live plan
CorrectedLimits(rec, before, after) ==
    {a \in Differing(rec, before) : LiveLimit(after, a) = Float(rec[a])}

\* C14: each mismatched attribute is corrected by a patch operation of its
\* own: when the correction of one attribute fails, the corrections of the
\* other mismatched attributes are applied and kept.
C14_CorrectionsAreIndependent ==
    (EnforcedPair /\ PatchFailed(last)) =>
        Cardinality(CorrectedLimits(last.governance_record, last.current_config,
                                    live[last.plan_id]))
            >= Cardinality(Differing(last.governance_record, last.current_config)) - 1

----------------------------------------------------------------------------
(* Properties of the classification of absent and unmanaged plans *)

\* C15: the evaluation of a usage plan (no call failing) is classified
\* NOT_APPLICABLE exactly when the live plan does not exist, and COMPLIANT or
\* NON_COMPLIANT only when it exists.
C15_AbsentIsNotApplicable ==
    [][\A id \in GeneratedIds :
          EvaluationRun(id) =>
              (id \notin DOMAIN live <=> last'.ComplianceType = "NOT_APPLICABLE")]_vars

\* the live plan id exists and no governance record matches it by key, by
\* name or by an equal triple of limits
Unmatched(id) ==
    /\ id \in DOMAIN live
    /\ \A k \in DOMAIN table : ~MatchesSomeTier(table[k], live[id])

UnmatchedAsIntegers(id) ==
    /\ Unmatched(id)
    /\ \A k \in DOMAIN table : ~plans_match_by_config(table[k], live[id])

----------------------------------------------------------------------------
(* Properties of the lineage of governance records *)

\* the key a lineage pointer of record k names, None when the record has no
\* such pointer
Pointer(k, field) == Get(table[k], field, None)

\* the keys reached from key k by following the pointer `field` one to n times
RECURSIVE Reached(_, _, _)
Reached(k, field, n) ==
    IF n = 0 \/ k \notin DOMAIN table \/ Pointer(k, field) = None THEN {}
    ELSE {Pointer(k, field)} \cup Reached(Pointer(k, field), field, n - 1)

\* the longest chain of distinct keys
MaxChain == Len(AllIds)

\* the governance records that claim the live plan id: the records that are
\* not soft-deleted among its own record and the records it was recreated from
Claimants(id) ==
    {k \in ({id} \cup Reached(id, "recreated_from", MaxChain)) \cap DOMAIN table :
        ~Get(table[k], "deleted", FALSE)}

\* C17: in every reachable state at most one governance record that is not
\* soft-deleted claims any live plan, also after a recovery whose write of the
\* new record succeeded and whose update of the old record failed.
C17_OneClaimantPerLivePlan ==
    \A id \in DOMAIN live : Cardinality(Claimants(id)) <= 1

\* C18: the lineage pointers form no cycle: following recreated_from, or
\* recreated_as, from a governance record never leads back to that record.
C18_LineageIsAcyclic ==
    \A k \in DOMAIN table :
        /\ k \notin Reached(k, "recreated_from", MaxChain)
        /\ k \notin Reached(k, "recreated_as", MaxChain)

\* a plan has been recreated twice in succession: a record was recreated from
\* a record that was itself recreated, and the forward pointers lead from the
\* first record to the last
C18_Witness ==
    \E k \in DOMAIN table :
        /\ Cardinality(Reached(k, "recreated_from", MaxChain)) >= 2
        /\ \E r \in Reached(k, "recreated_from", MaxChain) :
              k \in Reached(r, "recreated_as", MaxChain)
                  /\ Cardinality(Reached(r, "recreated_as", MaxChain)) >= 2

----------------------------------------------------------------------------
(* Properties of the life of a governance record *)

\* C19: the transition from Active to Deprecated is one-way: no operation
\* (update, deprecation, enforcement, recovery) sets the lifecycle_state of a
\* governance record that is Deprecated to anything else.
C19_DeprecatedIsFinal ==
    [][\A k \in DOMAIN table :
          Get(table[k], "lifecycle_state", None) = "Deprecated" =>
              /\ k \in DOMAIN table'
              /\ Get(table'[k], "lifecycle_state", None) = "Deprecated"]_vars

\* a Deprecated record has been updated and its plan recreated, and enforcement
\* has just run on it
C19_Witness ==
    \E k \in DOMAIN table :
        /\ table[k].lifecycle_state = "Deprecated"
        /\ Has(table[k], "updated_at")
        /\ Has(table[k], "recreated_as")
        /\ last.op = "enforce_configuration_for_plan"
        /\ last.plan_id = k

\* C20: a governance record is never physically removed: a key of the table
\* stays in the table after every step of every handler, and a record that
\* is marked deleted carries the lineage pointer recreated_as.
C20_RecordsAreNeverRemoved ==
    [][/\ DOMAIN table \subseteq DOMAIN table'
       /\ \A k \in DOMAIN table' :
             Get(table'[k], "deleted", FALSE) => Has(table'[k], "recreated_as")]_vars

\* a record is marked deleted with its lineage pointer, and is still stored
C20_Witness ==
    \E k \in DOMAIN table :
        /\ Get(table[k], "deleted", FALSE)
        /\ Get(table[k], "recreated_as", None) \in DOMAIN table
        /\ last.op = "usage_plan_recovery"
        /\ last.plan_id = k

----------------------------------------------------------------------------
(* Properties of the writes to the table *)

\* the step is an invocation of a handler that updates governance records
UpdatingStep ==
    /\ last = NoOp
    /\ last'.op \in {"update_usage_plan", "deprecate_plan", "usage_plan_recovery"}

\* C21: every update of the table (update_usage_plan, deprecate_plan, the
\* recovery's update of the old record) is conditioned on the record's prior
\* existence: an update aimed at a key that is absent from the table creates
\* no record (only the recovery's put of the new record adds a key), and no
\* update clears the deleted mark of a record.
C21_UpdatesAreConditional ==
    [][UpdatingStep =>
          /\ DOMAIN table' \ DOMAIN table \subseteq
                (IF last'.op = "usage_plan_recovery" THEN {last'.new_plan_id} ELSE {})
          /\ \A k \in DOMAIN table :
                Get(table[k], "deleted", FALSE) =>
                    k \in DOMAIN table' /\ Get(table'[k], "deleted", FALSE)]_vars

----------------------------------------------------------------------------
(* Properties of the periodic evaluation *)

\* the candidates of the periodic evaluation's configuration scan
Candidates == ApiPlansItems(GetUsagePlans(live), Len(GetUsagePlans(live)))

\* the step is a periodic evaluation whose listings and submission succeed
PeriodicStep ==
    /\ last = NoOp
    /\ last'.op = "periodic_evaluation"
    /\ last'.failed \subseteq DOMAIN live

\* the evaluation of governance record db_plan runs the candidate scan
Scanned(db_plan) ==
    /\ ~Get(db_plan, "deleted", FALSE)
    /\ \A i \in DOMAIN Candidates : Candidates[i].name # Get(db_plan, "plan_id", None)

\* whether the candidate scan for db_plan meets a lookup that fails
RECURSIVE MeetsFailure(_, _, _)
MeetsFailure(db_plan, candidates, F) ==
    IF candidates = << >> THEN FALSE
    ELSE IF Head(candidates).id \in F THEN TRUE
    ELSE IF plans_match_by_config(db_plan, live[Head(candidates).id]) THEN FALSE
    ELSE MeetsFailure(db_plan, Tail(candidates), F)

\* the ids of the governance records reported missing by evaluations
ReportedMissing(evaluations) == {e.ComplianceResourceId[2] : e \in Range(evaluations)}

\* C22: in an evaluate-all run a failure while evaluating one identity does
\* not abort the batch: the identities whose evaluation meets no failure get
\* the evaluation of the run without failures, and an identity whose
\* evaluation meets a failure is returned as a failure, not as a finding.
C22_FailuresAreCollected ==
    [][PeriodicStep =>
          \A k \in DOMAIN table :
              IF Scanned(table[k]) /\ MeetsFailure(table[k], Candidates, last'.failed)
              THEN k \notin ReportedMissing(last'.evaluations)
              ELSE k \in ReportedMissing(last'.evaluations)
                      <=> k \in ReportedMissing(evaluate_deleted_usage_plans({}))]_vars

\* the candidates whose lookup does not fail
RECURSIVE Without(_, _)
Without(candidates, F) ==
    IF candidates = << >> THEN << >>
    ELSE (IF Head(candidates).id \in F THEN << >> ELSE <<Head(candidates)>>)
         \o Without(Tail(candidates), F)

\* C28: during the configuration scan of the periodic evaluation a failed
\* lookup of one candidate live plan is swallowed and the scan goes on with the
\* next candidate: for every governance record the result of the scan is the
\* result of the scan, without failures, over the candidates that do not fail.
C28_FailedLookupIsSkipped ==
    [][PeriodicStep =>
          \A k \in DOMAIN table :
              Scanned(table[k]) =>
                  (k \in ReportedMissing(last'.evaluations)
                      <=> ~found_match(table[k], Without(Candidates, last'.failed), {}))]_vars

\* a periodic evaluation in which the lookup of the first candidate failed and
\* a later candidate matched a governance record
C28_Witness ==
    /\ last.op = "periodic_evaluation"
    /\ last.failed \subseteq DOMAIN live
    /\ Len(Candidates) >= 2
    /\ Candidates[1].id \in last.failed
    /\ \E k \in DOMAIN table :
          /\ Scanned(table[k])
          /\ found_match(table[k], Tail(Candidates), last.failed)
          /\ k \notin ReportedMissing(last.evaluations)

----------------------------------------------------------------------------
(* Properties of truncate_annotation *)

\* C23: truncate_annotation returns a message of at most 256 characters
\* unchanged, and for a longer message returns its first 253 characters
\* followed by '...': the result is 256 characters long and ends in '...'.
C23_TruncatesTo256 ==
    last.op = "create_evaluation_result" =>
        IF Len(last.annotation) <= 256
        THEN last.Annotation = last.annotation
        ELSE /\ Len(last.Annotation) = 256
             /\ \A i \in 1..253 : last.Annotation[i] = last.annotation[i]
             /\ \A i \in 254..256 : last.Annotation[i] = "."

\* a message of 300 characters, whose 254th to 256th characters are not all
\* full stops, has been truncated
C23_Witness ==
    /\ last.op = "create_evaluation_result"
    /\ Len(last.annotation) = 300
    /\ last.annotation[254] = "x"
    /\ Len(last.Annotation) = 256

----------------------------------------------------------------------------
(* Properties of stage references *)

\* C24: the two representations of a stage reference are losslessly
\* interconvertible: for every API id and stage name, parsing the string built
\* from them, by positions 2 and 4 as recreate_usage_plan does and by positions
\* -3 and -1 as update_usage_plan does, gives back the API id and the stage
\* name, so that the two parsers agree.
C24_StageReferenceRoundTrip ==
    last.op = "parse_stage_arn" =>
        /\ last.by_position = <<[apiId |-> last.api_id, stage |-> last.stage_name]>>
        /\ last.from_end = [apiId |-> last.api_id, stage |-> last.stage_name]
        /\ last.by_position = <<last.from_end>>

\* the reference of an API id and a different stage name, both of two
\* characters, has been built and parsed
C24_Witness ==
    /\ last.op = "parse_stage_arn"
    /\ Len(last.api_id) = 2 /\ Len(last.stage_name) = 2
    /\ last.api_id # last.stage_name
    /\ Len(Split(last.stage_arn)) = 5
    /\ last.from_end.stage = last.stage_name

----------------------------------------------------------------------------
(* Properties of the stage associations of a recreation *)

\* the step is a recovery that created the new live plan
RecreationStep ==
    /\ last = NoOp
    /\ last'.op = "usage_plan_recovery"
    /\ last'.new_plan_id # None

\* the stages the recreation wants to associate
DesiredStages(metadata) == ParseStages(Get(metadata, "stages", << >>))

\* C25: during a recreation each desired stage is attempted independently: a
\* stage is associated with the new plan exactly when its own association
\* call goes through, whatever happened to the other stages, and the
\* recreation succeeds whichever associations fail.
C25_StagesAreIndependent ==
    [][RecreationStep =>
          /\ last'.new_plan_id \in DOMAIN live'
          /\ last'.statusCode = 200
          /\ \A i \in DOMAIN DesiredStages(last'.metadata) :
                DesiredStages(last'.metadata)[i] \in live'[last'.new_plan_id].apiStages
                    <=> StageCalls[i] \notin last'.failed]_vars

\* a recreation whose first stage association failed has associated the
\* second stage
C25_Witness ==
    /\ last.op = "usage_plan_recovery"
    /\ last.new_plan_id \in DOMAIN live
    /\ "add_stage_1" \in last.failed
    /\ Len(DesiredStages(last.metadata)) = 2
    /\ live[last.new_plan_id].apiStages = {DesiredStages(last.metadata)[2]}

\* C26: a failure of a stage association is retried a fixed number of times
\* before it is given up: in a recreation, a stage whose association call
\* failed has been attempted more than once.
C26_StageAssociationIsRetried ==
    [][RecreationStep =>
          \A i \in DOMAIN DesiredStages(last'.metadata) :
              StageCalls[i] \in last'.failed =>
                  StageAttempts(DesiredStages(last'.metadata))[i] > 1]_vars

----------------------------------------------------------------------------
(* Properties of the configuration-similarity tier *)

\* the positions of the items of a listing that satisfy Matches
Hits(items, Matches(_)) == {i \in DOMAIN items : Matches(items[i])}

\* the first item of a listing that satisfies Matches, as a sequence of one
\* item, empty when none does
FirstHit(items, Matches(_)) ==
    IF Hits(items, Matches) = {} THEN << >>
    ELSE <<items[CHOOSE i \in Hits(items, Matches) : \A j \in Hits(items, Matches) : i <= j]>>

\* the record the evaluation that has just run resolved, as a sequence of one
\* item, empty when it resolved none
Resolved == IF Has(last', "db_plan") THEN <<last'.db_plan>> ELSE << >>

EqualAsIntegers(rec, plan) ==
    LET throttle == Get(plan, "throttle", EmptyDict)
        quota == Get(plan, "quota", EmptyDict)
    IN  /\ Get(rec, "rate_limit", 0) = IntOfFloat(Get(throttle, "rateLimit", Float(0)))
        /\ Get(rec, "burst_limit", 0) = Get(throttle, "burstLimit", 0)
        /\ Get(rec, "quota_limit", 0) = Get(quota, "limit", 0)

----------------------------------------------------------------------------
(* Properties of the version log *)

\* an invocation of version_logger has just run
VersionLoggerStep == Idle /\ last'.op = "version_logger"

\* the records of a batch whose event source is DynamoDB
DynamoDBRecords(Records) == {i \in DOMAIN Records : Records[i].eventSource = "aws:dynamodb"}

\* every entry the version log held is still in it, unchanged
EntriesKept ==
    \A key \in DOMAIN version_log :
        key \in DOMAIN version_log' /\ version_log'[key] = version_log[key]

\* C29: an invocation of the version logger adds one entry to the version log
\* for each DynamoDB record of its batch, so that the log holds N entries after
\* N records, and leaves every entry written earlier in the log, unchanged.
C29_OneEntryPerRecord ==
    [][VersionLoggerStep =>
          /\ Cardinality(DOMAIN version_log')
                 = Cardinality(DOMAIN version_log)
                       + Cardinality(DynamoDBRecords(last'.Records))
          /\ EntriesKept]_vars

----------------------------------------------------------------------------
(* Properties of a creation and the enforcement of its event *)

\* C30: once a creation of the system (create_usage_plan of the manager,
\* recreate_usage_plan and update_dynamodb_record of the recovery) has
\* finished, the live plan it created and its governance record both exist,
\* whenever the enforcement of its CreateUsagePlan event has run.
C30_CreatedPlanSurvivesEnforcement ==
    (Creating /\ last.pc = "done") =>
        /\ last.plan_id \in DOMAIN live
        /\ last.plan_id \in DOMAIN table

----------------------------------------------------------------------------
(* Properties of overlapping recoveries *)

\* the live plans the two executions of the running event have created
Replacements ==
    {last.executions[i].new_plan_id : i \in Executions} \ {None}

\* the records that are not marked deleted and name id as the plan they were
\* recreated from
LiveSuccessors(id) ==
    {k \in DOMAIN table : /\ Get(table[k], "recreated_from", None) = id
                          /\ ~Get(table[k], "deleted", FALSE)}

\* C31: while two overlapping executions of usage_plan_recovery handle the
\* same DeleteUsagePlan event, at most one replacement live plan is created
\* and at most one record that is not marked deleted has recreated_from equal
\* to the deleted plan's id.
C31_OneReplacementPerEvent ==
    Overlapping =>
        /\ Cardinality(Replacements) <= 1
        /\ Cardinality(LiveSuccessors(last.plan_id)) <= 1

----------------------------------------------------------------------------
(* Properties of what the recovery reports *)

\* the notifications of the running invocation that report a recovered plan
RecoveredNotifications ==
    {i \in DOMAIN last.notifications : last.notifications[i].status = "RECOVERED"}

\* both lineage writes of the running recovery are in the table: the record
\* of the new plan, and the old record marked deleted and naming the new plan
LineageWritten ==
    /\ last.new_plan_id \in DOMAIN table
    /\ Get(table[last.new_plan_id], "recreated_from", None) = last.plan_id
    /\ Get(table[last.plan_id], "deleted", FALSE) = TRUE
    /\ Get(table[last.plan_id], "recreated_as", None) = last.new_plan_id

\* C32: the recovery handler returns status 200 and emits the RECOVERED
\* notification only if both lineage writes succeeded: the new governance
\* record was put and the old one was marked deleted with recreated_as set.
C32_SuccessMeansLineageWritten ==
    (Recreated /\ (last.statusCode = 200 \/ RecoveredNotifications # {})) =>
        /\ last.record_updated
        /\ LineageWritten

----------------------------------------------------------------------------
(* Properties of update_usage_plan *)

\* update_usage_plan has just run for a request that lists stages, and
\* returned 'updated'
StagesUpdated ==
    /\ last.op = "update_usage_plan"
    /\ last.status = "updated"
    /\ Has(last.plan_data, "stages")

\* C33: after update_usage_plan(plan_id, {stages: S}) has completed
\* successfully, the stages associated with the live plan are the stages S of
\* the governance record, whatever stages were associated before the call,
\* and the drift detector reports no stage mismatch.
C33_UpdateSetsStages ==
    StagesUpdated =>
        /\ Range(table[last.plan_id].stages) = Range(last.plan_data.stages)
        /\ LiveStageArns(live[last.plan_id]) = Range(last.plan_data.stages)
        /\ ApiStagesViolation(Range(table[last.plan_id].stages),
                              ApiStagesArns(live[last.plan_id])) = << >>
        /\ DbStagesViolation(Range(table[last.plan_id].stages),
                             ApiStagesArns(live[last.plan_id])) = << >>

----------------------------------------------------------------------------
(* Properties of the counterpart of a live plan *)

\* the running invocation validated a live plan against a governance record
\* in place of deleting it: an evaluation that resolved a record, or an
\* enforcement that read a record and the live plan
Counterparts ==
    IF last.op = "evaluate_resource_compliance" /\ Has(last, "db_plan")
    THEN {last.db_plan}
    ELSE IF /\ last.op = "enforce_configuration_for_plan"
            /\ Has(last, "governance_record")
            /\ Has(last, "current_config")
    THEN {last.governance_record}
    ELSE {}

\* C34: a live usage plan is treated as managed only when a governance record
\* that is not soft-deleted matches it: the record an evaluation or an
\* enforcement uses as the counterpart of a live plan never has deleted = true.
C34_CounterpartIsNotSoftDeleted ==
    \A rec \in Counterparts : ~Get(rec, "deleted", FALSE)

----------------------------------------------------------------------------
(* Properties of what the periodic evaluation reports *)

\* the governance records that are not marked deleted and whose live plan,
\* the plan of id plan_id, does not exist
MissingPlans ==
    {k \in DOMAIN table : ~Get(table[k], "deleted", FALSE) /\ k \notin DOMAIN live}

\* C35: a periodic evaluation in which no call fails returns a 'missing'
\* evaluation for exactly the governance records that are not marked deleted
\* and have no live usage plan of their plan_id: each of them is reported and
\* no record whose live plan exists is.
C35_ReportsExactlyMissingPlans ==
    (last.op = "periodic_evaluation" /\ last.failed = {}) =>
        ReportedMissing(last.evaluations) = MissingPlans

----------------------------------------------------------------------------
(* Properties of what the enforcement reports about its corrections *)

\* the running enforcement reported that its corrections failed: by its
\* response or by the correction-failed notification
CorrectionFailureReported ==
    \/ last.action = "Failed to apply corrections"
    \/ \E i \in DOMAIN last.notifications :
           last.notifications[i].event = "configuration_correction_failed"

\* C36: enforce_configuration_for_plan emits the correction-failed
\* notification and returns 500 'Failed to apply corrections' only when the
\* corrective patch was not applied to the live plan; whenever the patch was
\* applied, the outcome reported is 'configuration_corrected'.
C36_FailureMeansNotApplied ==
    last.op = "enforce_configuration_for_plan" =>
        /\ CorrectionFailureReported => ~last.applied
        /\ last.applied => last.action = "configuration_corrected"

----------------------------------------------------------------------------
(* Properties of the notification of an unmanaged plan *)

\* the running invocation notified that the plan it handles is unmanaged
UnmanagedNotified ==
    \E i \in DOMAIN last.notifications :
        /\ last.notifications[i].event = "unmanaged_usage_plans_detected"
        /\ last.notifications[i].plan_id = last.plan_id

\* C37: every deletion of an unmanaged live plan by the enforcement handler
\* comes with an 'unmanaged_usage_plans_detected' notification for that plan,
\* on every trigger path, and the notification is emitted only for a plan
\* that the invocation deletes.
C37_DeletionIsNotified ==
    last.op = "enforce_configuration_for_plan" =>
        (last.deleted_live <=> UnmanagedNotified)

----------------------------------------------------------------------------
(* Properties of an update with some of the limits *)

\* the request lists some of the three limits and not all of them
Partial(plan_data) ==
    /\ LimitKeys \cap DOMAIN plan_data # {}
    /\ ~(LimitKeys \subseteq DOMAIN plan_data)

\* C38: update_usage_plan called with some but not all of rate_limit,
\* burst_limit and quota_limit fails with an error and leaves the governance
\* records and the live plans as they were, also when the request lists
\* stages.
C38_PartialLimitsWriteNothing ==
    [][(last = NoOp /\ last'.op = "update_usage_plan" /\ Partial(last'.plan_data)) =>
          /\ last'.status = "exception"
          /\ table' = table
          /\ live' = live]_vars

C38_Witness ==
    /\ last.op = "update_usage_plan"
    /\ Partial(last.plan_data)
    /\ Has(last.plan_data, "stages")
    /\ last.status = "exception"
    /\ last.plan_id \in DOMAIN table \cap DOMAIN live
    /\ table[last.plan_id].rate_limit # last.plan_data.rate_limit

----------------------------------------------------------------------------
(* Properties of the frame of enforcement and evaluation *)

\* the operations of drift enforcement and compliance evaluation
ReadOnlyOps ==
    {"enforce_configuration_for_plan", "handle_usage_plan_deletion",
     "evaluate_resource_compliance", "periodic_evaluation"}

\* C39: drift enforcement and compliance evaluation never write to the
\* governance table: enforce_configuration_for_plan, handle_usage_plan_change,
\* handle_usage_plan_deletion, evaluate_resource_compliance and
\* evaluate_deleted_usage_plans leave every record as it was, whether they
\* succeed or fail, and a step that changes the table is a step of the
\* manager.
C39_ReconciliationLeavesTheTable ==
    [][/\ (last = NoOp /\ last'.op \in ReadOnlyOps) => table' = table
       /\ table' # table => last'.op = "update_usage_plan"]_vars

C39_Witness ==
    /\ last.op = "handle_usage_plan_deletion"
    /\ last.action = "managed_plan_deleted"
    /\ last.plan_id \in DOMAIN table \ DOMAIN live
    /\ ~Has(table[last.plan_id], "deleted")

====
